---- MODULE Spec2Model ----
(***************************************************************************)
(* Model of the sandboxed text-editor workspace of workshop-ui             *)
(* (src/workshop-ui/app/tools/text_editor.py, class TextEditorTool).       *)
(*                                                                         *)
(* Strings (paths, file names, file contents) are sequences of one-        *)
(* character strings, so that str.startswith, os.path.normpath, str.count, *)
(* str.replace, sorted() and the text-mode newline translation of open()   *)
(* are computed the way CPython computes them on a POSIX host.  The file   *)
(* system is a map from absolute path strings to the bytes of the regular  *)
(* files plus the set of directories.                                      *)
(***************************************************************************)
EXTENDS Integers, Sequences, FiniteSets, TLC

VARIABLES files, dirs, history, clock, last, pc, log,
          SANDBOX_SESSIONS, heap, chats

vars == <<files, dirs, history, clock, last, pc, log,
          SANDBOX_SESSIONS, heap, chats>>

(***************************************************************************)
(* Bounds of the model.                                                    *)
(***************************************************************************)
\* successful mutating calls explored per workspace (length of history)
MaxHist == 3
\* snapshots taken per workspace (instants datetime.now() hands to
\* _backup_file)
MaxClock == 3
\* longest text drawn for create / old_str in the text specifications
MaxLen == 3

\* the TextEditorTool objects constructed in a run
MaxObj == 2

(***************************************************************************)
(* Characters and strings.                                                 *)
(***************************************************************************)
LF == "\n"
CR == "\r"
SLASH == "/"
DOT == "."

\* The characters of the model in increasing code-point order (the order
\* Python's string comparison uses).
CharOrder == <<LF, CR, DOT, SLASH, "0", "1", "2", "3", "4", "5", "6", "7",
               "8", "9", "a", "b", "c", "d", "e", "f", "k", "p", "s", "t",
               "u", "x">>

Ord(c) == CHOOSE i \in 1..Len(CharOrder) : CharOrder[i] = c

Take(s, n) == SubSeq(s, 1, n)

Drop(s, n) == SubSeq(s, n + 1, Len(s))

\* str.startswith
StartsWith(s, pre) == Len(pre) <= Len(s) /\ Take(s, Len(pre)) = pre

\* str.endswith
EndsWith(s, suf) == Len(suf) <= Len(s) /\ Drop(s, Len(s) - Len(suf)) = suf

\* Python's  a < b  on strings: lexicographic by code point.
RECURSIVE StrLess(_, _)
StrLess(a, b) ==
    IF b = <<>> THEN FALSE
    ELSE IF a = <<>> THEN TRUE
    ELSE IF a[1] = b[1] THEN StrLess(Tail(a), Tail(b))
    ELSE Ord(a[1]) < Ord(b[1])

\* sorted(names, reverse=True)[0]
StrMax(S) == CHOOSE m \in S : \A o \in S : o = m \/ StrLess(o, m)

\* "".join(parts)
RECURSIVE Concat(_)
Concat(parts) ==
    IF parts = <<>> THEN <<>> ELSE Head(parts) \o Concat(Tail(parts))

\* sep.join(parts)
RECURSIVE JoinWith(_, _)
JoinWith(sep, parts) ==
    IF parts = <<>> THEN <<>>
    ELSE IF Len(parts) = 1 THEN parts[1]
    ELSE parts[1] \o sep \o JoinWith(sep, Tail(parts))

\* index of the first c in s, 0 when there is none
RECURSIVE FindFrom(_, _, _)
FindFrom(s, c, i) ==
    IF i > Len(s) THEN 0
    ELSE IF s[i] = c THEN i
    ELSE FindFrom(s, c, i + 1)

\* s.split(c) for a one-character separator c
RECURSIVE Split(_, _)
Split(s, c) ==
    LET i == FindFrom(s, c, 1)
    IN  IF i = 0 THEN <<s>>
        ELSE <<Take(s, i - 1)>> \o Split(Drop(s, i), c)

\* All strings over alphabet A of length at most n.
RECURSIVE StrUpTo(_, _)
StrUpTo(A, n) ==
    IF n = 0 THEN {<<>>}
    ELSE LET S == StrUpTo(A, n - 1)
         IN  S \cup {Append(s, c) : s \in S, c \in A}

(***************************************************************************)
(* os.path (posixpath).                                                    *)
(***************************************************************************)
\* os.path.join(a, b)
PathJoin(a, b) ==
    IF StartsWith(b, <<SLASH>>) THEN b
    ELSE IF a = <<>> \/ EndsWith(a, <<SLASH>>) THEN a \o b
    ELSE a \o <<SLASH>> \o b

\* The component loop of posixpath.normpath.
RECURSIVE NormComps(_, _, _)
NormComps(comps, acc, initial_slashes) ==
    IF comps = <<>> THEN acc
    ELSE LET comp == Head(comps)
             rest == Tail(comps)
         IN  IF comp = <<>> \/ comp = <<DOT>>
             THEN NormComps(rest, acc, initial_slashes)
             ELSE IF comp # <<DOT, DOT>>
                     \/ (initial_slashes = 0 /\ acc = <<>>)
                     \/ (acc # <<>> /\ acc[Len(acc)] = <<DOT, DOT>>)
             THEN NormComps(rest, Append(acc, comp), initial_slashes)
             ELSE IF acc # <<>>
             THEN NormComps(rest, Take(acc, Len(acc) - 1), initial_slashes)
             ELSE NormComps(rest, acc, initial_slashes)

\* os.path.normpath(path)
normpath(path) ==
    IF path = <<>> THEN <<DOT>>
    ELSE LET initial_slashes ==
                 IF ~StartsWith(path, <<SLASH>>) THEN 0
                 ELSE IF StartsWith(path, <<SLASH, SLASH>>)
                         /\ ~StartsWith(path, <<SLASH, SLASH, SLASH>>)
                 THEN 2
                 ELSE 1
             comps == NormComps(Split(path, SLASH), <<>>, initial_slashes)
             body == JoinWith(<<SLASH>>, comps)
             full == [i \in 1..initial_slashes |-> SLASH] \o body
         IN  IF full = <<>> THEN <<DOT>> ELSE full

\* index of the last "/" of p at or before i, 0 when there is none
RECURSIVE RFindSlash(_, _)
RFindSlash(p, i) ==
    IF i = 0 THEN 0
    ELSE IF p[i] = SLASH THEN i
    ELSE RFindSlash(p, i - 1)

\* p.rfind("/") + 1
LastSlash(p) == RFindSlash(p, Len(p))

\* os.path.basename(p)
basename(p) == Drop(p, LastSlash(p))

\* str.rstrip("/")
RECURSIVE RStripSlash(_)
RStripSlash(s) ==
    IF s # <<>> /\ s[Len(s)] = SLASH THEN RStripSlash(Take(s, Len(s) - 1))
    ELSE s

\* os.path.dirname(p)
dirname(p) ==
    LET head == Take(p, LastSlash(p))
    IN  IF head # <<>> /\ \E i \in 1..Len(head) : head[i] # SLASH
        THEN RStripSlash(head)
        ELSE head

(***************************************************************************)
(* Python str methods used by the tool.                                    *)
(***************************************************************************)
\* str.count(sub): the number of non-overlapping occurrences found by a
\* left-to-right scan; len(s) + 1 for the empty sub.
RECURSIVE Count(_, _)
Count(s, sub) ==
    IF sub = <<>> THEN Len(s) + 1
    ELSE IF Len(s) < Len(sub) THEN 0
    ELSE IF StartsWith(s, sub) THEN 1 + Count(Drop(s, Len(sub)), sub)
    ELSE Count(Tail(s), sub)

\* str.replace(old, new) for a non-empty old
RECURSIVE ReplaceScan(_, _, _)
ReplaceScan(s, old, new) ==
    IF Len(s) < Len(old) THEN s
    ELSE IF StartsWith(s, old)
    THEN new \o ReplaceScan(Drop(s, Len(old)), old, new)
    ELSE <<Head(s)>> \o ReplaceScan(Tail(s), old, new)

\* str.replace("", new): new before every character and at the end
RECURSIVE Interleave(_, _)
Interleave(s, new) ==
    IF s = <<>> THEN new
    ELSE new \o <<Head(s)>> \o Interleave(Tail(s), new)

\* str.replace(old, new)
Replace(s, old, new) ==
    IF old = <<>> THEN Interleave(s, new) ELSE ReplaceScan(s, old, new)

(***************************************************************************)
(* Text-mode file objects: open(path, "r"/"w", encoding="utf-8") with the  *)
(* default newline=None.                                                   *)
(***************************************************************************)
\* os.linesep of the host
linesep == <<LF>>

\* f.read(): universal newlines, "\r\n" and "\r" both arrive as "\n"
RECURSIVE DecodeText(_)
DecodeText(b) ==
    IF b = <<>> THEN <<>>
    ELSE IF b[1] = CR
    THEN IF Len(b) > 1 /\ b[2] = LF
         THEN <<LF>> \o DecodeText(Drop(b, 2))
         ELSE <<LF>> \o DecodeText(Tail(b))
    ELSE <<b[1]>> \o DecodeText(Tail(b))

\* f.write(text): every "\n" leaves as os.linesep, nothing else changes
RECURSIVE EncodeText(_)
EncodeText(t) ==
    IF t = <<>> THEN <<>>
    ELSE (IF t[1] = LF THEN linesep ELSE <<t[1]>>) \o EncodeText(Tail(t))

\* str.splitlines(keepends) restricted to "\n", which is what f.readlines()
\* yields after the newline translation
RECURSIVE KeepEndsLines(_)
KeepEndsLines(t) ==
    LET i == FindFrom(t, LF, 1)
    IN  IF t = <<>> THEN <<>>
        ELSE IF i = 0 THEN <<t>>
        ELSE <<Take(t, i)>> \o KeepEndsLines(Drop(t, i))

\* f.readlines()
readlines(b) == KeepEndsLines(DecodeText(b))

(***************************************************************************)
(* The file system: fs = [files |-> path :> bytes, dirs |-> set of paths]. *)
(***************************************************************************)
\* os.path.exists
exists(fs, p) == p \in DOMAIN fs.files \/ p \in fs.dirs

\* os.path.isdir
isdir(fs, p) == p \in fs.dirs

\* p and every ancestor directory of the absolute normalised path p
PathChain(p) ==
    {p, <<SLASH>>} \cup {Take(p, k - 1) : k \in {j \in 2..Len(p) : p[j] = SLASH}}

\* os.makedirs(d, exist_ok=True) succeeds
CanMakedirs(fs, d) == \A q \in PathChain(d) : q \notin DOMAIN fs.files

\* os.makedirs(d, exist_ok=True)
makedirs(fs, d) == [fs EXCEPT !.dirs = @ \cup PathChain(d)]

\* open(p, "r") succeeds
CanRead(fs, p) == p \in DOMAIN fs.files

\* open(p, "w") succeeds
CanWrite(fs, p) == p \notin fs.dirs /\ dirname(p) \in fs.dirs

\* the bytes of p replaced by b
WriteBytes(fs, p, b) ==
    [fs EXCEPT !.files = [q \in (DOMAIN @) \cup {p} |-> IF q = p THEN b ELSE @[q]]]

\* os.remove(p)
RemoveFile(fs, p) ==
    [fs EXCEPT !.files = [q \in (DOMAIN @) \ {p} |-> @[q]]]

\* os.listdir(d): the names of the entries directly inside d
listdir(fs, d) ==
    {basename(q) : q \in {r \in (DOMAIN fs.files) \cup fs.dirs :
                              r # d /\ r # <<SLASH>> /\ dirname(r) = d}}

\* the destination shutil.copy2(src, dst) really writes
CopyTarget(fs, src, dst) ==
    IF isdir(fs, dst) THEN PathJoin(dst, basename(src)) ELSE dst

\* shutil.copy2(src, dst) succeeds
CanCopy(fs, src, dst) ==
    /\ CanRead(fs, src)
    /\ CopyTarget(fs, src, dst) # src
    /\ CanWrite(fs, CopyTarget(fs, src, dst))

\* shutil.copy2(src, dst)
copy2(fs, src, dst) == WriteBytes(fs, CopyTarget(fs, src, dst), fs.files[src])

(***************************************************************************)
(* TextEditorTool.  An object is  self = [session_id, base_dir,            *)
(* backup_dir, history];  every method takes the file system and the       *)
(* object and yields  [fs, self, status, out]:  the file system and object *)
(* it leaves behind, "ok" or the kind of the exception it raised, and the  *)
(* value returned (or the number an error message quotes).                 *)
(***************************************************************************)
\* tempfile.gettempdir() joined with "workshop-sandbox", as one directory
SANDBOX_BASE_DIR == <<SLASH, "t">>

\* the directory name of the backup store
BACKUPS == <<DOT, "b", "a", "c", "k", "u", "p", "s">>

\* Python's None for old_content / new_content / view_range
None == <<"None">>

\* TextEditorTool.__init__: the attributes of a new object
NewTool(session_id) ==
    LET base == PathJoin(SANDBOX_BASE_DIR, session_id)
    IN  [session_id |-> session_id,
         base_dir |-> base,
         backup_dir |-> PathJoin(base, BACKUPS),
         history |-> <<>>]

\* TextEditorTool.__init__: the two os.makedirs(..., exist_ok=True) calls
InitDirs(fs, self) == makedirs(makedirs(fs, self.base_dir), self.backup_dir)

\* the result of a method that raised before changing anything
Raise(fs, self, status, out) ==
    [fs |-> fs, self |-> self, status |-> status, out |-> out]

\* the path _validate_path joins, normalises and tests
ResolvedPath(self, file_path) ==
    LET stripped == IF StartsWith(file_path, <<SLASH>>)
                    THEN Tail(file_path) ELSE file_path
    IN  normpath(PathJoin(self.base_dir, stripped))

\* not_in_sandbox: the test on which _validate_path raises ValueError
PathRejected(self, abs_path) == ~StartsWith(abs_path, self.base_dir)

\* _validate_path
validate_path(self, file_path) ==
    LET abs_path == ResolvedPath(self, file_path)
    IN  [ok |-> ~PathRejected(self, abs_path), abs_path |-> abs_path]

\* datetime.now().strftime("%Y%m%d_%H%M%S_%f"): fixed width, so the strings
\* order as the instants do; one digit stands for the whole stamp
TsStr(now) == <<CharOrder[Ord("0") + now]>>

\* the name _backup_file gives the snapshot of file_path taken at `now`
BackupPath(self, file_path, now) ==
    PathJoin(self.backup_dir, basename(file_path) \o <<DOT>> \o TsStr(now))

\* _backup_file: [ok, fs]; ok is FALSE when shutil.copy2 raises
backup_file(fs, self, file_path, now) ==
    IF ~exists(fs, file_path) THEN [ok |-> TRUE, fs |-> fs]
    ELSE LET backup_path == BackupPath(self, file_path, now)
         IN  IF CanCopy(fs, file_path, backup_path)
             THEN [ok |-> TRUE, fs |-> copy2(fs, file_path, backup_path)]
             ELSE [ok |-> FALSE, fs |-> fs]

\* add_history putting the new record first instead of last
add_history_front(self, command, path, details, old_content, new_content) ==
    [self EXCEPT !.history =
        <<[command |-> command, path |-> path, details |-> details,
           old_content |-> old_content, new_content |-> new_content]>> \o @]

\* add_history that forgets the calls of undo_edit
add_history_no_undo(self, command, path, details, old_content, new_content) ==
    IF command = "undo_edit" THEN self
    ELSE [self EXCEPT !.history =
            Append(@, [command |-> command, path |-> path, details |-> details,
                       old_content |-> old_content, new_content |-> new_content])]

\* _add_history (the wall-clock timestamp of the record is left out: no
\* method reads it)
add_history(self, command, path, details, old_content, new_content) ==
    [self EXCEPT !.history =
        Append(@, [command |-> command, path |-> path, details |-> details,
                   old_content |-> old_content, new_content |-> new_content])]

\* create writing the file before it looks at the verdict of _validate_path
create_write_first(fs, self, file_path, file_text) ==
    LET v == validate_path(self, file_path)
        abs_path == v.abs_path
        fs1 == makedirs(fs, dirname(abs_path))
    IN  IF exists(fs, abs_path) THEN Raise(fs, self, "FileExists", <<>>)
        ELSE IF ~CanMakedirs(fs, dirname(abs_path)) \/ ~CanWrite(fs1, abs_path)
        THEN Raise(fs, self, "OSError", <<>>)
        ELSE IF ~v.ok
        THEN Raise(WriteBytes(fs1, abs_path, EncodeText(file_text)), self,
                   "AccessDenied", <<>>)
        ELSE [fs |-> WriteBytes(fs1, abs_path, EncodeText(file_text)),
              self |-> [self EXCEPT !.history =
                          Append(@, [command |-> "create", path |-> file_path,
                                     details |-> [size |-> Len(file_text)],
                                     old_content |-> None,
                                     new_content |-> file_text])],
              status |-> "ok",
              out |-> <<>>]

\* create without the os.path.exists test: an existing file is overwritten
create_overwrite(fs, self, file_path, file_text) ==
    LET v == validate_path(self, file_path)
        abs_path == v.abs_path
        fs1 == makedirs(fs, dirname(abs_path))
    IN  IF ~v.ok THEN Raise(fs, self, "AccessDenied", <<>>)
        ELSE IF ~CanMakedirs(fs, dirname(abs_path)) \/ ~CanWrite(fs1, abs_path)
        THEN Raise(fs, self, "OSError", <<>>)
        ELSE [fs |-> WriteBytes(fs1, abs_path, EncodeText(file_text)),
              self |-> [self EXCEPT !.history =
                          Append(@, [command |-> "create", path |-> file_path,
                                     details |-> [size |-> Len(file_text)],
                                     old_content |-> None,
                                     new_content |-> file_text])],
              status |-> "ok",
              out |-> <<>>]

\* create
create(fs, self, file_path, file_text) ==
    LET v == validate_path(self, file_path)
        abs_path == v.abs_path
        parent == dirname(abs_path)
        fs1 == makedirs(fs, parent)
    IN  IF ~v.ok THEN Raise(fs, self, "AccessDenied", <<>>)
        ELSE IF exists(fs, abs_path) THEN Raise(fs, self, "FileExists", <<>>)
        ELSE IF ~CanMakedirs(fs, parent) THEN Raise(fs, self, "OSError", <<>>)
        ELSE IF ~CanWrite(fs1, abs_path) THEN Raise(fs1, self, "OSError", <<>>)
        ELSE [fs |-> WriteBytes(fs1, abs_path, EncodeText(file_text)),
              self |-> add_history(self, "create", file_path,
                                   [size |-> Len(file_text)], None, file_text),
              status |-> "ok",
              out |-> <<>>]

\* str_replace
str_replace(fs, self, file_path, old_str, new_str, now) ==
    LET v == validate_path(self, file_path)
        abs_path == v.abs_path
    IN  IF ~v.ok THEN Raise(fs, self, "AccessDenied", <<>>)
        ELSE IF ~exists(fs, abs_path) THEN Raise(fs, self, "FileNotFound", <<>>)
        ELSE IF ~CanRead(fs, abs_path) THEN Raise(fs, self, "OSError", <<>>)
        ELSE
        LET content == DecodeText(fs.files[abs_path])
            match_count == Count(content, old_str)
            b == backup_file(fs, self, abs_path, now)
            new_content == Replace(content, old_str, new_str)
        IN  IF match_count = 0 THEN Raise(fs, self, "NoMatch", <<>>)
            ELSE IF match_count > 1
            THEN Raise(fs, self, "MultiMatch", <<match_count>>)
            ELSE IF ~b.ok THEN Raise(fs, self, "OSError", <<>>)
            ELSE [fs |-> WriteBytes(b.fs, abs_path, EncodeText(new_content)),
                  self |-> add_history(self, "str_replace", file_path,
                               [old_str |-> old_str, new_str |-> new_str],
                               content, new_content),
                  status |-> "ok",
                  out |-> <<>>]

\* list.insert(i, x) for 0 <= i <= len(list)
ListInsert(lines, i, x) == Take(lines, i) \o <<x>> \o Drop(lines, i)

\* insert whose range test lets insert_line = len(lines) + 1 through
insert_off_by_one(fs, self, file_path, insert_line, new_str, now) ==
    LET v == validate_path(self, file_path)
        abs_path == v.abs_path
    IN  IF ~v.ok THEN Raise(fs, self, "AccessDenied", <<>>)
        ELSE IF ~exists(fs, abs_path) THEN Raise(fs, self, "FileNotFound", <<>>)
        ELSE IF ~CanRead(fs, abs_path) THEN Raise(fs, self, "OSError", <<>>)
        ELSE
        LET lines == readlines(fs.files[abs_path])
            old_content == Concat(lines)
            b == backup_file(fs, self, abs_path, now)
            new_str1 == IF lines # <<>> /\ ~EndsWith(lines[Len(lines)], <<LF>>)
                        THEN <<LF>> \o new_str ELSE new_str
            at == IF insert_line > Len(lines) THEN Len(lines) ELSE insert_line
            lines1 == ListInsert(lines, at, new_str1 \o <<LF>>)
            new_content == Concat(lines1)
        IN  IF ~b.ok THEN Raise(fs, self, "OSError", <<>>)
            ELSE IF ~(insert_line = 0
                      \/ (0 < insert_line /\ insert_line <= Len(lines) + 1))
            THEN Raise(b.fs, self, "IndexError", <<insert_line, Len(lines)>>)
            ELSE [fs |-> WriteBytes(b.fs, abs_path, EncodeText(new_content)),
                  self |-> [self EXCEPT !.history =
                              Append(@, [command |-> "insert",
                                         path |-> file_path,
                                         details |-> [line |-> insert_line,
                                                      text |-> new_str1],
                                         old_content |-> old_content,
                                         new_content |-> new_content])],
                  status |-> "ok",
                  out |-> <<>>]

\* insert
insert(fs, self, file_path, insert_line, new_str, now) ==
    LET v == validate_path(self, file_path)
        abs_path == v.abs_path
    IN  IF ~v.ok THEN Raise(fs, self, "AccessDenied", <<>>)
        ELSE IF ~exists(fs, abs_path) THEN Raise(fs, self, "FileNotFound", <<>>)
        ELSE IF ~CanRead(fs, abs_path) THEN Raise(fs, self, "OSError", <<>>)
        ELSE
        LET lines == readlines(fs.files[abs_path])
            old_content == Concat(lines)
            b == backup_file(fs, self, abs_path, now)
            new_str1 == IF lines # <<>> /\ ~EndsWith(lines[Len(lines)], <<LF>>)
                        THEN <<LF>> \o new_str ELSE new_str
            lines1 == IF insert_line = 0
                      THEN ListInsert(lines, 0, new_str1 \o <<LF>>)
                      ELSE ListInsert(lines, insert_line, new_str1 \o <<LF>>)
            new_content == Concat(lines1)
        IN  IF ~b.ok THEN Raise(fs, self, "OSError", <<>>)
            ELSE IF ~(insert_line = 0
                      \/ (0 < insert_line /\ insert_line <= Len(lines)))
            THEN Raise(b.fs, self, "IndexError", <<insert_line, Len(lines)>>)
            ELSE [fs |-> WriteBytes(b.fs, abs_path, EncodeText(new_content)),
                  self |-> add_history(self, "insert", file_path,
                               [line |-> insert_line, text |-> new_str1],
                               old_content, new_content),
                  status |-> "ok",
                  out |-> <<>>]

\* the list comprehension of undo_edit: the entries of backup_dir whose name
\* starts with file_name + "."
MatchingBackups(fs, self, file_name) ==
    {f \in listdir(fs, self.backup_dir) : StartsWith(f, file_name \o <<DOT>>)}

\* undo_edit
undo_edit(fs, self, file_path) ==
    LET v == validate_path(self, file_path)
        abs_path == v.abs_path
        file_name == basename(abs_path)
        backups == MatchingBackups(fs, self, file_name)
    IN  IF ~v.ok THEN Raise(fs, self, "AccessDenied", <<>>)
        ELSE IF ~isdir(fs, self.backup_dir) THEN Raise(fs, self, "OSError", <<>>)
        ELSE IF backups = {} THEN Raise(fs, self, "NoBackups", <<>>)
        ELSE
        LET latest_backup == StrMax(backups)
            backup_path == PathJoin(self.backup_dir, latest_backup)
            fs1 == RemoveFile(copy2(fs, backup_path, abs_path), backup_path)
        IN  IF ~CanCopy(fs, backup_path, abs_path)
            THEN Raise(fs, self, "OSError", <<>>)
            ELSE IF ~CanRead(fs1, abs_path) THEN Raise(fs1, self, "OSError", <<>>)
            ELSE LET restored_content == DecodeText(fs1.files[abs_path])
                 IN  [fs |-> fs1,
                      self |-> add_history(self, "undo_edit", file_path,
                                   [restored_from |-> latest_backup],
                                   None, restored_content),
                      status |-> "ok",
                      out |-> <<>>]

\* get_file_content
get_file_content(fs, self, file_path) ==
    LET v == validate_path(self, file_path)
        abs_path == v.abs_path
    IN  IF ~v.ok THEN Raise(fs, self, "AccessDenied", <<>>)
        ELSE IF ~exists(fs, abs_path) THEN Raise(fs, self, "FileNotFound", <<>>)
        ELSE IF ~CanRead(fs, abs_path) THEN Raise(fs, self, "OSError", <<>>)
        ELSE [fs |-> fs, self |-> self, status |-> "ok",
              out |-> DecodeText(fs.files[abs_path])]

\* get_history
get_history(fs, self) ==
    [fs |-> fs, self |-> self, status |-> "ok", out |-> self.history]

\* sub in s
Contains(s, sub) ==
    \E i \in 0..(Len(s) - Len(sub)) : SubSeq(s, i + 1, i + Len(sub)) = sub

\* p is d or lies below d in the directory tree
IsUnder(p, d) == p = d \/ StartsWith(p, d \o <<SLASH>>)

\* _get_relative_path, for a path below base_dir
get_relative_path(self, abs_path) == Drop(abs_path, Len(self.base_dir) + 1)

\* the directories os.walk(base_dir) visits
WalkRoots(fs, self) == {d \in fs.dirs : IsUnder(d, self.base_dir)}

\* list_files that also walks the directories whose path contains ".backups"
list_files_all(fs, self) ==
    LET roots == WalkRoots(fs, self)
        listed == {f \in DOMAIN fs.files : dirname(f) \in roots}
    IN  [fs |-> fs, self |-> self, status |-> "ok",
         out |-> {[path |-> get_relative_path(self, f),
                   size |-> Len(fs.files[f])] : f \in listed}]

\* list_files; the returned list is modelled as the set of its entries
\* (os.walk fixes no order), without the modification time
list_files(fs, self) ==
    LET roots == {d \in WalkRoots(fs, self) : ~Contains(d, BACKUPS)}
        listed == {f \in DOMAIN fs.files : dirname(f) \in roots}
    IN  [fs |-> fs, self |-> self, status |-> "ok",
         out |-> {[path |-> get_relative_path(self, f),
                   size |-> Len(fs.files[f])] : f \in listed}]

\* str(i) for an integer i
RECURSIVE NatStr(_)
NatStr(i) ==
    IF i < 10 THEN <<CharOrder[Ord("0") + i]>>
    ELSE NatStr(i \div 10) \o <<CharOrder[Ord("0") + (i % 10)]>>

IntStr(i) == IF i < 0 THEN <<"-">> \o NatStr(0 - i) ELSE NatStr(i)

\* seq[i:j] of Python, negative and out-of-range indices included
PySlice(seq, i, j) ==
    LET n == Len(seq)
        clamp(k) == IF k < 0 THEN (IF n + k < 0 THEN 0 ELSE n + k)
                    ELSE IF k > n THEN n ELSE k
    IN  SubSeq(seq, clamp(i) + 1, clamp(j))

\* [f"{i}: {line}" for i, line in enumerate(lines, start)]
Numbered(lines, start) ==
    [k \in 1..Len(lines) |-> IntStr(start + k - 1) \o <<":", " ">> \o lines[k]]

\* view slicing lines[start:end], one line too late
view_zero_based(fs, self, file_path, view_range) ==
    LET v == validate_path(self, file_path)
        abs_path == v.abs_path
    IN  IF ~v.ok THEN Raise(fs, self, "AccessDenied", <<>>)
        ELSE IF isdir(fs, abs_path)
        THEN [fs |-> fs, self |-> self, status |-> "ok",
              out |-> listdir(fs, abs_path)]
        ELSE IF ~exists(fs, abs_path) THEN Raise(fs, self, "FileNotFound", <<>>)
        ELSE
        LET content == DecodeText(fs.files[abs_path])
            lines == Split(content, LF)
            start == view_range[1]
            end == IF view_range[2] = -1 THEN Len(lines) ELSE view_range[2]
            result == IF view_range # None /\ view_range # <<>>
                      THEN Numbered(PySlice(lines, start, end), start)
                      ELSE Numbered(lines, 1)
        IN  [fs |-> fs, self |-> self, status |-> "ok",
             out |-> JoinWith(<<LF>>, result)]

\* view; view_range is None or <<start, end>>.  A directory listing is
\* modelled as the set of entry names (os.listdir fixes no order), the
\* empty set standing for "(empty directory)"
view(fs, self, file_path, view_range) ==
    LET v == validate_path(self, file_path)
        abs_path == v.abs_path
    IN  IF ~v.ok THEN Raise(fs, self, "AccessDenied", <<>>)
        ELSE IF isdir(fs, abs_path)
        THEN [fs |-> fs, self |-> self, status |-> "ok",
              out |-> listdir(fs, abs_path)]
        ELSE IF ~exists(fs, abs_path) THEN Raise(fs, self, "FileNotFound", <<>>)
        ELSE
        LET content == DecodeText(fs.files[abs_path])
            lines == Split(content, LF)
            start == view_range[1]
            end == IF view_range[2] = -1 THEN Len(lines) ELSE view_range[2]
            result == IF view_range # None /\ view_range # <<>>
                      THEN Numbered(PySlice(lines, start - 1, end), start)
                      ELSE Numbered(lines, 1)
        IN  [fs |-> fs, self |-> self, status |-> "ok",
             out |-> JoinWith(<<LF>>, result)]

\* dict.get(key, default)
Get(d, key, default) == IF key \in DOMAIN d THEN d[key] ELSE default

\* run_text_editor_tool whose last branch views the path instead of raising
run_text_editor_tool_lenient(fs, sandbox, tool_input, now) ==
    LET command == Get(tool_input, "command", "None")
        path == Get(tool_input, "path", <<>>)
        Has(keys) == keys \subseteq DOMAIN tool_input
    IN  IF command = "str_replace"
        THEN IF ~Has({"old_str", "new_str"})
             THEN Raise(fs, sandbox, "KeyError", <<>>)
             ELSE str_replace(fs, sandbox, path, tool_input.old_str,
                              tool_input.new_str, now)
        ELSE IF command = "create"
        THEN IF ~Has({"file_text"}) THEN Raise(fs, sandbox, "KeyError", <<>>)
             ELSE create(fs, sandbox, path, tool_input.file_text)
        ELSE IF command = "insert"
        THEN IF ~Has({"insert_line", "new_str"})
             THEN Raise(fs, sandbox, "KeyError", <<>>)
             ELSE insert(fs, sandbox, path, tool_input.insert_line,
                         tool_input.new_str, now)
        ELSE IF command = "undo_edit" THEN undo_edit(fs, sandbox, path)
        ELSE view(fs, sandbox, path, Get(tool_input, "view_range", None))

\* run_text_editor_tool; tool_input is a dict, here a function on its keys;
\* a missing command reads as None, printed "None"
run_text_editor_tool(fs, sandbox, tool_input, now) ==
    LET command == Get(tool_input, "command", "None")
        path == Get(tool_input, "path", <<>>)
        Has(keys) == keys \subseteq DOMAIN tool_input
    IN  IF command = "view"
        THEN view(fs, sandbox, path, Get(tool_input, "view_range", None))
        ELSE IF command = "str_replace"
        THEN IF ~Has({"old_str", "new_str"})
             THEN Raise(fs, sandbox, "KeyError", <<>>)
             ELSE str_replace(fs, sandbox, path, tool_input.old_str,
                              tool_input.new_str, now)
        ELSE IF command = "create"
        THEN IF ~Has({"file_text"}) THEN Raise(fs, sandbox, "KeyError", <<>>)
             ELSE create(fs, sandbox, path, tool_input.file_text)
        ELSE IF command = "insert"
        THEN IF ~Has({"insert_line", "new_str"})
             THEN Raise(fs, sandbox, "KeyError", <<>>)
             ELSE insert(fs, sandbox, path, tool_input.insert_line,
                         tool_input.new_str, now)
        ELSE IF command = "undo_edit" THEN undo_edit(fs, sandbox, path)
        ELSE Raise(fs, sandbox, "UnknownCommand", command)

\* shutil.rmtree(d)
RemoveTree(fs, d) ==
    [files |-> [q \in {x \in DOMAIN fs.files : ~IsUnder(x, d)} |-> fs.files[q]],
     dirs |-> {x \in fs.dirs : ~IsUnder(x, d)}]

\* cleanup: shutil.rmtree raises NotADirectoryError on a path that exists
\* and is not a directory
cleanup(fs, self) ==
    IF ~exists(fs, self.base_dir)
    THEN [fs |-> fs, self |-> self, status |-> "ok", out |-> None]
    ELSE IF ~isdir(fs, self.base_dir)
    THEN Raise(fs, self, "NotADirectoryError", <<>>)
    ELSE [fs |-> RemoveTree(fs, self.base_dir), self |-> self,
          status |-> "ok", out |-> None]

\* get_or_create_sandbox that constructs a new object at every call
get_or_create_sandbox_anew(fs, sessions, objects, session_id) ==
    LET new == NewTool(session_id)
        oid == Len(objects) + 1
    IN  [fs |-> InitDirs(fs, new),
         sessions |-> [k \in (DOMAIN sessions) \cup {session_id} |->
                          IF k = session_id THEN oid ELSE sessions[k]],
         objects |-> Append(objects, new),
         status |-> "ok",
         oid |-> oid]

\* get_or_create_sandbox: [fs, sessions, objects, status, oid], oid being
\* the object returned
get_or_create_sandbox(fs, sessions, objects, session_id) ==
    LET new == NewTool(session_id)
        oid == Len(objects) + 1
    IN  IF session_id \in DOMAIN sessions
        THEN [fs |-> fs, sessions |-> sessions, objects |-> objects,
              status |-> "ok", oid |-> sessions[session_id]]
        ELSE IF ~CanMakedirs(fs, new.base_dir)
        THEN [fs |-> fs, sessions |-> sessions, objects |-> objects,
              status |-> "OSError", oid |-> 0]
        ELSE IF ~CanMakedirs(fs, new.backup_dir)
        THEN [fs |-> makedirs(fs, new.base_dir), sessions |-> sessions,
              objects |-> objects, status |-> "OSError", oid |-> 0]
        ELSE [fs |-> InitDirs(fs, new),
              sessions |-> [k \in (DOMAIN sessions) \cup {session_id} |->
                               IF k = session_id THEN oid ELSE sessions[k]],
              objects |-> Append(objects, new),
              status |-> "ok",
              oid |-> oid]

\* delete_texteditor_session: [fs, sessions, status]; an exception of
\* cleanup is caught by the route, which then keeps the registry entry
delete_texteditor_session(fs, sessions, objects, session_id) ==
    IF session_id \in DOMAIN sessions
    THEN LET c == cleanup(fs, objects[sessions[session_id]])
         IN  IF c.status = "ok"
             THEN [fs |-> c.fs,
                   sessions |-> [k \in (DOMAIN sessions) \ {session_id} |->
                                    sessions[k]],
                   status |-> "ok"]
             ELSE [fs |-> c.fs, sessions |-> sessions, status |-> c.status]
    ELSE [fs |-> fs, sessions |-> sessions, status |-> "ok"]

(***************************************************************************)
(* State.  files/dirs: the file system.  history: the history list of the  *)
(* one TextEditorTool object of session "s".  clock: the latest instant    *)
(* datetime.now() returned to _backup_file.  last: the most recent call    *)
(* and how it ended.  pc/log: the position in a scripted call sequence and *)
(* the calls made so far with their arguments and results (unused by Spec).*)
(* SANDBOX_SESSIONS: the registry, session id :> object; heap: the         *)
(* TextEditorTool objects the registry constructed, an object being its    *)
(* index; chats: the objects held by running texteditor_chat requests.     *)
(* The single-workspace specifications construct their object directly,    *)
(* as the tests do, and leave the registry empty.  SpecRace keeps in pc    *)
(* and log the position and the local variables of each of its two         *)
(* callers, SpecChat the frame of the generator and the events it has      *)
(* yielded, SpecStack the phase of its script and the file's contents.     *)
(***************************************************************************)
\* the session identifier of the workspace under study
SessionId == <<"s">>

\* the file system as the methods see it
FsNow == [files |-> files, dirs |-> dirs]

\* TextEditorTool("s") as constructed
Tool0 == NewTool(SessionId)

\* the TextEditorTool object as the methods see it
SelfNow == [Tool0 EXCEPT !.history = history]

\* import of the module (os.makedirs(SANDBOX_BASE_DIR)) followed by
\* TextEditorTool("s")
InitFs ==
    InitDirs(makedirs([files |-> <<>>, dirs |-> {}], SANDBOX_BASE_DIR), Tool0)

InitWorkspace ==
    /\ files = InitFs.files
    /\ dirs = InitFs.dirs
    /\ history = <<>>
    /\ clock = 0
    /\ last = [cmd |-> "init", path |-> <<>>, status |-> "ok", out |-> <<>>]
    /\ SANDBOX_SESSIONS = <<>>
    /\ heap = <<>>
    /\ chats = {}

\* the state a call leaves: what the method did, and its outcome in last
Commit(r, cmd, path) ==
    /\ Len(r.self.history) <= MaxHist
    /\ files' = r.fs.files
    /\ dirs' = r.fs.dirs
    /\ history' = r.self.history
    /\ last' = [cmd |-> cmd, path |-> path, status |-> r.status, out |-> r.out]
    /\ UNCHANGED <<SANDBOX_SESSIONS, heap, chats>>

\* the instant datetime.now() returns to the next snapshot when the host
\* clock is strictly later at every snapshot than at the one before
LaterInstants == {t \in {clock + 1} : t <= MaxClock}

\* the clock after a call that asked _backup_file for a snapshot at `now`
ClockAfter(r, now) == IF r.status \in {"ok", "IndexError"} THEN now ELSE clock

\* Each action below is one call of a method: r is the method's result
\* (bound through a singleton set so that it is computed once per call).
\* They say what the call does to files, dirs, history, last and clock; the
\* specification using them says what becomes of pc and log.
\* P: request paths, T/O/N: texts, L: line numbers, R: view ranges,
\* I: the instants datetime.now() may return.
CreateOn(P, T) ==
    \E p \in P, t \in T :
        \E r \in {create(FsNow, SelfNow, p, t)} :
            /\ Commit(r, "create", p)
            /\ UNCHANGED clock

StrReplaceOn(P, O, N, I) ==
    \E p \in P, o \in O, n \in N, now \in I :
        \E r \in {str_replace(FsNow, SelfNow, p, o, n, now)} :
            /\ Commit(r, "str_replace", p)
            /\ clock' = ClockAfter(r, now)

InsertOn(P, L, N, I) ==
    \E p \in P, k \in L, n \in N, now \in I :
        \E r \in {insert(FsNow, SelfNow, p, k, n, now)} :
            /\ Commit(r, "insert", p)
            /\ clock' = ClockAfter(r, now)

UndoEditOn(P) ==
    \E p \in P :
        \E r \in {undo_edit(FsNow, SelfNow, p)} :
            /\ Commit(r, "undo_edit", p)
            /\ UNCHANGED clock

ViewOn(P, R) ==
    \E p \in P, vr \in R :
        \E r \in {view(FsNow, SelfNow, p, vr)} :
            /\ Commit(r, "view", p)
            /\ UNCHANGED clock

GetFileContentOn(P) ==
    \E p \in P :
        \E r \in {get_file_content(FsNow, SelfNow, p)} :
            /\ Commit(r, "get_file_content", p)
            /\ UNCHANGED clock

ListFilesCall ==
    /\ Commit(list_files(FsNow, SelfNow), "list_files", <<>>)
    /\ UNCHANGED clock

GetHistoryCall ==
    /\ Commit(get_history(FsNow, SelfNow), "get_history", <<>>)
    /\ UNCHANGED clock

(***************************************************************************)
(* Spec: one workspace driven by arbitrary calls over a few paths.         *)
(***************************************************************************)
\* request paths: a file, a file of the same name in a subdirectory, the
\* empty path (base_dir itself) and a path out of the sandbox
Paths == { <<"f">>,
           <<"d", SLASH, "f">>,
           <<>>,
           <<DOT, DOT, SLASH, "x">> }

Texts == { <<"a">> }

OldStrs == { <<"a">> }

NewStrs == { <<"b">> }

InsertLines == { 0, 2 }

InsertStrs == { <<"a">> }

ViewRanges == { None }

Init ==
    /\ InitWorkspace
    /\ pc = "free"
    /\ log = <<>>

\* Spec runs no script
Free == UNCHANGED <<pc, log>>

Create == CreateOn(Paths, Texts) /\ Free

StrReplace == StrReplaceOn(Paths, OldStrs, NewStrs, LaterInstants) /\ Free

Insert == InsertOn(Paths, InsertLines, InsertStrs, LaterInstants) /\ Free

UndoEdit == UndoEditOn(Paths) /\ Free

View == ViewOn(Paths, ViewRanges) /\ Free

GetFileContent == GetFileContentOn(Paths) /\ Free

ListFiles == ListFilesCall /\ Free

GetHistory == GetHistoryCall /\ Free

Next ==
    \/ Create
    \/ StrReplace
    \/ Insert
    \/ UndoEdit
    \/ View
    \/ GetFileContent
    \/ ListFiles
    \/ GetHistory

Spec == Init /\ [][Next]_vars

(***************************************************************************)
(* Claims checked under Spec.                                              *)
(***************************************************************************)
\* the commands that take a request path
PathCmds == {"view", "create", "str_replace", "insert", "undo_edit",
             "get_file_content"}

\* the commands that record themselves in the history
Mutating == {"create", "str_replace", "insert", "undo_edit"}

IsPrefix(a, b) == Len(a) <= Len(b) /\ SubSeq(b, 1, Len(a)) = a

\* the entries of the backup store
BackupNames == listdir(FsNow, SelfNow.backup_dir)

\* the call that made this step was turned away by _validate_path
DeniedStep == last'.cmd \in PathCmds /\ last'.status = "AccessDenied"

\* C2: a call of view, create, str_replace, insert, undo_edit or
\* get_file_content whose path _validate_path rejects ends with the
\* access-denied error whatever the state of the workspace (the check comes
\* before any I/O), and it leaves the files, their contents, the
\* directories, the backups and the history exactly as they were.
C2_DeniedBeforeIO ==
    [][/\ (last'.cmd \in PathCmds
            /\ PathRejected(SelfNow, ResolvedPath(SelfNow, last'.path)))
           => last'.status = "AccessDenied"
       /\ DeniedStep => (files' = files /\ dirs' = dirs /\ history' = history)
      ]_vars

\* a denied undo_edit in a workspace that holds a file and a backup
C2_Witness ==
    /\ last.cmd = "undo_edit"
    /\ last.status = "AccessDenied"
    /\ BackupNames # {}
    /\ Len(history) = 2

\* C3: every call either succeeds, and then a mutating command has added
\* exactly one history record, or fails, and then files, directories,
\* backups and history are all what they were before the call.
C3_AllOrNothing ==
    [][IF last'.status = "ok"
       THEN last'.cmd \in Mutating => Len(history') = Len(history) + 1
       ELSE files' = files /\ dirs' = dirs /\ history' = history
      ]_vars

\* C7: the history of every later state has the history of every earlier
\* state as a prefix: a call adds at most one record, at the end, and it is
\* the record of the command just run.
C7_HistoryAppendOnly ==
    [][/\ IsPrefix(history, history')
       /\ Len(history') <= Len(history) + 1
       /\ Len(history') = Len(history) + 1
            => history'[Len(history')].command = last'.cmd
      ]_vars

\* create then str_replace on the same file: exactly the two records, in
\* that order
C7_Witness ==
    /\ Len(history) = 2
    /\ history[1].command = "create"
    /\ history[2].command = "str_replace"
    /\ history[1].path = history[2].path

\* C8: a successful create, str_replace, insert or undo_edit makes the
\* history one record longer, the new record naming that command and the
\* request path; view, list_files, get_file_content, get_history and every
\* failing call leave the history as it was.
C8_HistoryGrowth ==
    [][IF last'.status = "ok" /\ last'.cmd \in Mutating
       THEN /\ Len(history') = Len(history) + 1
            /\ SubSeq(history', 1, Len(history)) = history
            /\ history'[Len(history')].command = last'.cmd
            /\ history'[Len(history')].path = last'.path
       ELSE history' = history
      ]_vars

\* a successful undo_edit as the third recorded call
C8_Witness ==
    /\ last.cmd = "undo_edit"
    /\ last.status = "ok"
    /\ Len(history) = 3
    /\ history[3].command = "undo_edit"

\* C10: create on a path that passes validation and already exists, as a
\* file or as a directory, fails with the already-exists error and changes
\* neither the files (nothing is overwritten), nor the backups, nor the
\* history.
C10_CreateExisting ==
    [][(/\ last'.cmd = "create"
        /\ ~PathRejected(SelfNow, ResolvedPath(SelfNow, last'.path))
        /\ exists(FsNow, ResolvedPath(SelfNow, last'.path)))
       => (/\ last'.status = "FileExists"
           /\ files' = files /\ dirs' = dirs /\ history' = history)
      ]_vars

\* create refused on an existing file whose content differs from the text
\* the call carried
C10_Witness ==
    /\ last.cmd = "create"
    /\ last.status = "FileExists"
    /\ last.path = <<"f">>
    /\ <<SLASH, "t", SLASH, "s", SLASH, "f">> \in DOMAIN files
    /\ files[<<SLASH, "t", SLASH, "s", SLASH, "f">>] # <<"a">>

(***************************************************************************)
(* SpecPath: two calls in a row on a fresh workspace, over the forms a     *)
(* request path can take.                                                  *)
(***************************************************************************)
\* plain, with a leading slash, nested, empty, into a sibling directory of
\* base_dir whose name starts with the session identifier, out of the
\* sandbox with "..", absolute, out through a subdirectory, and back into
\* base_dir through ".."
PathForms == { <<"f">>,
               <<SLASH, "f">>,
               <<"d", SLASH, "f">>,
               <<>>,
               <<DOT, DOT, SLASH, "s", "2", SLASH, "f">>,
               <<DOT, DOT, SLASH, "x">>,
               <<SLASH, SLASH, "x">>,
               <<"d", SLASH, DOT, DOT, SLASH, DOT, DOT, SLASH, "x">>,
               <<DOT, DOT, SLASH, "s", SLASH, "f">> }

InitPath ==
    /\ InitWorkspace
    /\ pc = "p0"
    /\ log = <<>>

\* the first call, then the second
PathStep ==
    /\ pc \in {"p0", "p1"}
    /\ pc' = IF pc = "p0" THEN "p1" ELSE "p2"
    /\ UNCHANGED log

PathCreate == CreateOn(PathForms, Texts) /\ PathStep

PathStrReplace ==
    StrReplaceOn(PathForms, OldStrs, NewStrs, LaterInstants) /\ PathStep

PathInsert ==
    InsertOn(PathForms, InsertLines, InsertStrs, LaterInstants) /\ PathStep

PathUndoEdit == UndoEditOn(PathForms) /\ PathStep

PathView == ViewOn(PathForms, ViewRanges) /\ PathStep

PathGetFileContent == GetFileContentOn(PathForms) /\ PathStep

NextPath ==
    \/ PathCreate
    \/ PathStrReplace
    \/ PathInsert
    \/ PathUndoEdit
    \/ PathView
    \/ PathGetFileContent

SpecPath == InitPath /\ [][NextPath]_vars

\* C1: a path-taking call either fails with the access-denied error or
\* works on base_dir or a descendant of base_dir; no file or directory ever
\* appears outside base_dir (a sibling directory whose name starts with the
\* same characters included).
C1_PathConfinement ==
    /\ (last.cmd \in PathCmds /\ last.status # "AccessDenied")
         => IsUnder(ResolvedPath(SelfNow, last.path), SelfNow.base_dir)
    /\ \A q \in (DOMAIN files) \cup (dirs \ InitFs.dirs) :
         IsUnder(q, SelfNow.base_dir)

(***************************************************************************)
(* SpecText: create(p, text); str_replace(p, old, new) on a fresh          *)
(* workspace, for every text, with get_file_content read at will.          *)
(***************************************************************************)
\* the request path: a file in a directory that does not exist yet
TextPath == <<"d", SLASH, "f">>

TextChars == {"a", LF, CR}

AllTexts == StrUpTo(TextChars, MaxLen)

OldTexts == StrUpTo({"a", LF}, MaxLen) \cup {<<CR>>}

NewTexts == { <<>>, <<"b">> }

InitText ==
    /\ InitWorkspace
    /\ pc = "t0"
    /\ log = <<>>

TextCreate ==
    /\ pc = "t0"
    /\ \E t \in AllTexts :
         \E r \in {create(FsNow, SelfNow, TextPath, t)} :
            /\ Commit(r, "create", TextPath)
            /\ log' = Append(log, [cmd |-> "create", text |-> t,
                                   status |-> r.status])
    /\ pc' = "t1"
    /\ UNCHANGED clock

TextStrReplace ==
    /\ pc = "t1"
    /\ \E o \in OldTexts, n \in NewTexts, now \in LaterInstants :
         \E r \in {str_replace(FsNow, SelfNow, TextPath, o, n, now)} :
            /\ Commit(r, "str_replace", TextPath)
            /\ clock' = ClockAfter(r, now)
            /\ log' = Append(log,
                 [cmd |-> "str_replace", old |-> o, new |-> n,
                  before |-> get_file_content(FsNow, SelfNow, TextPath).out,
                  status |-> r.status, out |-> r.out])
    /\ pc' = "t2"

TextRead ==
    /\ pc \in {"t1", "t2"}
    /\ GetFileContentOn({TextPath})
    /\ UNCHANGED <<pc, log>>

NextText ==
    \/ TextCreate
    \/ TextStrReplace
    \/ TextRead

SpecText == InitText /\ [][NextText]_vars

\* the positions (counted from 0) at which sub occurs in s
Occurrences(s, sub) ==
    {i \in 0..(Len(s) - Len(sub)) : SubSeq(s, i + 1, i + Len(sub)) = sub}

\* C6: str_replace on an existing file succeeds if and only if old_str
\* occurs exactly once in the current content; the new content is then the
\* old one with that occurrence replaced by new_str and nothing else
\* changed; with no occurrence it fails with "No match found" and with
\* several it fails with an error stating their exact number.
C6_ReplaceUniqueness ==
    pc = "t2" =>
        LET c == log[2]
            occ == Occurrences(c.before, c.old)
            after == get_file_content(FsNow, SelfNow, TextPath).out
        IN  /\ (c.status = "ok") <=> (Cardinality(occ) = 1)
            /\ c.status = "ok" =>
                 \E i \in occ :
                    after = Take(c.before, i) \o c.new
                              \o Drop(c.before, i + Len(c.old))
            /\ Cardinality(occ) = 0 => c.status = "NoMatch"
            /\ Cardinality(occ) > 1 =>
                 (c.status = "MultiMatch" /\ c.out = <<Cardinality(occ)>>)

\* C9: create(p, text) on a path that does not exist yet makes the missing
\* parent directories, and get_file_content(p) then returns exactly text,
\* carriage returns and CRLF line endings included.
C9_CreateReadRoundTrip ==
    pc = "t1" =>
        /\ log[1].status = "ok"
        /\ dirname(ResolvedPath(SelfNow, TextPath)) \in dirs
        /\ last.cmd = "get_file_content"
             => (last.status = "ok" /\ last.out = log[1].text)

(***************************************************************************)
(* SpecUndo: create(p, v1); str_replace(p, v1, v2); undo_edit(q);          *)
(* undo_edit(q) on a fresh workspace.                                      *)
(***************************************************************************)
UndoPaths == { <<"f">>, <<"d", SLASH, "f">> }

\* the regular files of the backup store
BackupFiles == {b \in DOMAIN files : dirname(b) = SelfNow.backup_dir}

InitUndo ==
    /\ InitWorkspace
    /\ pc = "u0"
    /\ log = <<>>

UndoCreate ==
    /\ pc = "u0"
    /\ \E p \in UndoPaths, v1 \in AllTexts :
         \E r \in {create(FsNow, SelfNow, p, v1)} :
            /\ Commit(r, "create", p)
            /\ log' = Append(log, [cmd |-> "create", path |-> p, text |-> v1,
                                   status |-> r.status])
    /\ pc' = "u1"
    /\ UNCHANGED clock

\* the edit; the log keeps which snapshots it took
UndoStrReplace ==
    /\ pc = "u1"
    /\ \E v2 \in NewTexts, now \in LaterInstants :
         \E r \in {str_replace(FsNow, SelfNow, log[1].path, log[1].text,
                               v2, now)} :
            /\ Commit(r, "str_replace", log[1].path)
            /\ clock' = ClockAfter(r, now)
            /\ log' = Append(log,
                 [cmd |-> "str_replace", path |-> log[1].path, new |-> v2,
                  status |-> r.status,
                  taken |-> (DOMAIN r.fs.files) \ (DOMAIN files)])
    /\ pc' = "u2"

UndoFirst ==
    /\ pc = "u2"
    /\ \E q \in UndoPaths :
         \E r \in {undo_edit(FsNow, SelfNow, q)} :
            /\ Commit(r, "undo_edit", q)
            /\ log' = Append(log, [cmd |-> "undo_edit", path |-> q,
                                   status |-> r.status])
    /\ pc' = "u3"
    /\ UNCHANGED clock

UndoSecond ==
    /\ pc = "u3"
    /\ \E r \in {undo_edit(FsNow, SelfNow, log[3].path)} :
         /\ Commit(r, "undo_edit", log[3].path)
         /\ log' = Append(log, [cmd |-> "undo_edit", path |-> log[3].path,
                                status |-> r.status])
    /\ pc' = "u4"
    /\ UNCHANGED clock

NextUndo ==
    \/ UndoCreate
    \/ UndoStrReplace
    \/ UndoFirst
    \/ UndoSecond

SpecUndo == InitUndo /\ [][NextUndo]_vars

\* C4: in a fresh workspace, after create(p, v1); str_replace(p, v1, v2);
\* undo_edit(p) the content get_file_content(p) returns is v1, and a second
\* undo_edit(p) fails with "No backups found".
C4_UndoRestores ==
    (pc \in {"u3", "u4"} /\ log[3].path = log[1].path) =>
        /\ pc = "u3" =>
             LET g == get_file_content(FsNow, SelfNow, log[1].path)
             IN  g.status = "ok" /\ g.out = log[1].text
        /\ pc = "u4" => log[4].status = "NoBackups"

\* of the snapshots store, those that were taken from the file abs_path
TakenFrom(store, abs_path) ==
    {b \in store :
        \E i \in 1..Len(log) :
            /\ log[i].cmd = "str_replace"
            /\ log[i].status = "ok"
            /\ ResolvedPath(SelfNow, log[i].path) = abs_path
            /\ b \in log[i].taken}

\* C5: a successful undo_edit(p) removes exactly one backup, the one it
\* restored from; the number of backups belonging to p goes down by exactly
\* one; p's content becomes that backup's content; every other file and
\* every other backup is unchanged.
C5_UndoFrame ==
    [][(last'.cmd = "undo_edit" /\ last'.status = "ok") =>
         LET abs_path == ResolvedPath(SelfNow, last'.path)
             removed == BackupFiles \ BackupFiles'
         IN  /\ Cardinality(removed) = 1
             /\ BackupFiles' \subseteq BackupFiles
             /\ \A b \in removed : files'[abs_path] = files[b]
             /\ Cardinality(TakenFrom(BackupFiles', abs_path)) =
                  Cardinality(TakenFrom(BackupFiles, abs_path)) - 1
             /\ \A f \in (DOMAIN files) \ (removed \cup {abs_path}) :
                  f \in DOMAIN files' /\ files'[f] = files[f]
             /\ (DOMAIN files') \subseteq (DOMAIN files) \cup {abs_path}
      ]_vars

\* C11: undo_edit(p) fails with the not-found error, leaving files, backups
\* and history unchanged, whenever the file p does not exist or no backup
\* taken from p exists; it never creates a file where none existed.
C11_UndoNotFound ==
    [][last'.cmd = "undo_edit" =>
         LET abs_path == ResolvedPath(SelfNow, last'.path)
         IN  /\ (abs_path \notin DOMAIN files
                   \/ TakenFrom(BackupFiles, abs_path) = {})
                  => /\ last'.status = "NoBackups"
                     /\ files' = files
                     /\ dirs' = dirs
                     /\ history' = history
             /\ (DOMAIN files') \subseteq (DOMAIN files)
      ]_vars

(***************************************************************************)
(* SpecList: one workspace with files at several depths, in and around     *)
(* directories and names that contain ".backups", edited and listed.       *)
(***************************************************************************)
ListPaths == { <<"f">>,
               <<"d", SLASH, "d", SLASH, "f">>,
               <<"f">> \o BACKUPS,
               <<"x">> \o BACKUPS \o <<SLASH, "f">>,
               BACKUPS \o <<SLASH, "f">> }

ListCreate == CreateOn(ListPaths, Texts) /\ Free

ListStrReplace ==
    StrReplaceOn({<<"f">>}, OldStrs, NewStrs, LaterInstants) /\ Free

ListInsertLine == InsertOn({<<"f">>}, {0}, InsertStrs, LaterInstants) /\ Free

ListUndoEdit == UndoEditOn({<<"f">>}) /\ Free

ListListFiles == ListFilesCall /\ Free

NextList ==
    \/ ListCreate
    \/ ListStrReplace
    \/ ListInsertLine
    \/ ListUndoEdit
    \/ ListListFiles

SpecList == Init /\ [][NextList]_vars

\* C12 as stated: list_files never returns an entry whose path lies in or
\* contains the backup directory name ".backups".
C12_NoBackupsInPath ==
    last.cmd = "list_files" =>
        \A e \in last.out : ~Contains(e.path, BACKUPS)

\* C12 as amended: list_files never returns an entry that lies in the backup
\* directory or in any directory whose path contains ".backups" (an entry
\* whose file name alone contains ".backups" may be returned).
C12_NoBackupDirEntries ==
    last.cmd = "list_files" =>
        \A e \in last.out :
            /\ ~Contains(dirname(e.path), BACKUPS)
            /\ PathJoin(SelfNow.base_dir, e.path) \notin BackupFiles

C12_Witness ==
    /\ last.cmd = "list_files"
    /\ \E b \in BackupFiles : basename(b) # <<"f">>
    /\ \E e \in last.out : Contains(e.path, BACKUPS)

\* C13: list_files returns one entry, with its path relative to base_dir,
\* for every regular file under base_dir that is not under backup_dir, at
\* any depth, a user directory whose name merely contains ".backups"
\* included.
C13_ListingComplete ==
    last.cmd = "list_files" =>
        {e.path : e \in last.out} =
            {get_relative_path(SelfNow, f) :
                f \in {g \in DOMAIN files :
                        /\ IsUnder(g, SelfNow.base_dir)
                        /\ ~IsUnder(g, SelfNow.backup_dir)}}

(***************************************************************************)
(* SpecInsert: create(p, text) followed by insert(p, k, s) or by           *)
(* view(q, range) on a fresh workspace, for every text and every line      *)
(* number in and around the file's range.                                  *)
(***************************************************************************)
InsertPath == <<"f">>

InsertTexts == StrUpTo({"a", LF}, MaxLen)

\* line numbers from below 0 to above the most lines a text can have
InsertAt == (0 - 1)..(MaxLen + 1)

\* inserted texts, none with a newline
InsertNew == { <<>>, <<"x">> }

InitInsert ==
    /\ InitWorkspace
    /\ pc = "i0"
    /\ log = <<>>

InsertCreate ==
    /\ pc = "i0"
    /\ \E t \in InsertTexts :
         \E r \in {create(FsNow, SelfNow, InsertPath, t)} :
            /\ Commit(r, "create", InsertPath)
            /\ log' = Append(log, [cmd |-> "create", text |-> t,
                                   status |-> r.status])
    /\ pc' = "i1"
    /\ UNCHANGED clock

InsertInsert ==
    /\ pc = "i1"
    /\ \E k \in InsertAt, n \in InsertNew, now \in LaterInstants :
         \E r \in {insert(FsNow, SelfNow, InsertPath, k, n, now)} :
            /\ Commit(r, "insert", InsertPath)
            /\ clock' = ClockAfter(r, now)
            /\ log' = Append(log,
                 [cmd |-> "insert", k |-> k, s |-> n,
                  before |-> get_file_content(FsNow, SelfNow, InsertPath).out,
                  status |-> r.status])
    /\ pc' = "i2"

\* view of the file created or of a path that does not exist
InsertViewPaths == { InsertPath, <<"g">> }

InsertViewRanges ==
    {None} \cup {<<a, b>> : a \in 1..MaxLen, b \in {0 - 1} \cup (1..(MaxLen + 1))}

InsertView ==
    /\ pc = "i1"
    /\ \E p \in InsertViewPaths, vr \in InsertViewRanges :
         \E r \in {view(FsNow, SelfNow, p, vr)} :
            /\ Commit(r, "view", p)
            /\ log' = Append(log,
                 [cmd |-> "view", path |-> p, range |-> vr,
                  before |-> get_file_content(FsNow, SelfNow, InsertPath).out,
                  status |-> r.status, out |-> r.out])
    /\ pc' = "v2"
    /\ UNCHANGED clock

NextInsert ==
    \/ InsertCreate
    \/ InsertInsert
    \/ InsertView

SpecInsert == InitInsert /\ [][NextInsert]_vars

\* the lines of a text, without their line ends
TextLines(t) ==
    LET ls == KeepEndsLines(t)
    IN  [i \in 1..Len(ls) |->
            IF EndsWith(ls[i], <<LF>>) THEN Take(ls[i], Len(ls[i]) - 1)
            ELSE ls[i]]

\* C14: for a file with lines L1..Ln, whether or not the last one ends with
\* a newline, and a text s without newlines, insert(p, k, s) with
\* 0 <= k <= n yields the lines L1..Lk, s, L(k+1)..Ln: one line is added and
\* no other line changes; insert(p, 0, s) makes s the first line.
C14_InsertLines ==
    pc = "i2" =>
        LET c == log[2]
            L == TextLines(c.before)
            after == get_file_content(FsNow, SelfNow, InsertPath).out
        IN  (0 <= c.k /\ c.k <= Len(L)) =>
                /\ c.status = "ok"
                /\ TextLines(after) = Take(L, c.k) \o <<c.s>> \o Drop(L, c.k)

\* C15: insert(p, k, s) on an existing file with n lines fails with the
\* out-of-range error exactly when k < 0 or k > n, the error states k and
\* n, and the failed call changes neither the file's content nor history.
C15_InsertOutOfRange ==
    [][last'.cmd = "insert" =>
         LET c == log'[2]
             n == Len(TextLines(c.before))
             abs_path == ResolvedPath(SelfNow, InsertPath)
         IN  /\ (last'.status = "IndexError") <=> (c.k < 0 \/ c.k > n)
             /\ last'.status = "IndexError" =>
                  /\ last'.out = <<c.k, n>>
                  /\ files'[abs_path] = files[abs_path]
                  /\ history' = history
      ]_vars

C15_Witness ==
    /\ pc = "i2"
    /\ last.status = "IndexError"
    /\ Len(TextLines(log[2].before)) = 2
    /\ log[2].k = 3

\* lines from..to of L, each prefixed with its own number and ": ", joined
\* with newlines
NumberedLines(L, from, to) ==
    JoinWith(<<LF>>, [i \in 1..(to - from + 1) |->
                        IntStr(from + i - 1) \o <<":", " ">> \o L[from + i - 1]])

ToolInputs ==
    { [command |-> "create", path |-> <<"f">>, file_text |-> <<"a">>],
      [command |-> "create", path |-> <<"d", SLASH, "f">>,
       file_text |-> <<"b">>],
      [command |-> "view", path |-> <<"f">>],
      [command |-> "view", path |-> <<"f">>, view_range |-> <<1, 1>>],
      [command |-> "view"],
      [command |-> "str_replace", path |-> <<"f">>, old_str |-> <<"a">>,
       new_str |-> <<"b">>],
      [command |-> "str_replace", path |-> <<"d", SLASH, "f">>,
       old_str |-> <<"b">>, new_str |-> <<>>],
      [command |-> "str_replace", path |-> <<"f">>],
      [command |-> "insert", path |-> <<"f">>, insert_line |-> 0,
       new_str |-> <<"a">>],
      [command |-> "undo_edit", path |-> <<"f">>],
      [command |-> "get_file_content", path |-> <<"f">>],
      [command |-> "delete", path |-> <<"f">>],
      [path |-> <<"f">>] }

\* the instant datetime.now() returns to a snapshot: that of the snapshot
\* before (the clock has not ticked since) or a later one
CoarseInstants == {t \in {clock, clock + 1} : 1 <= t /\ t <= MaxClock}

RunTool ==
    /\ \E ti \in ToolInputs, now \in CoarseInstants :
         \E r \in {run_text_editor_tool(FsNow, SelfNow, ti, now)} :
            /\ Commit(r, Get(ti, "command", "None"), Get(ti, "path", <<>>))
            /\ clock' = IF /\ Get(ti, "command", "None")
                                \in {"str_replace", "insert"}
                           /\ r.status \in {"ok", "IndexError"}
                        THEN now ELSE clock
            /\ log' = <<[tool_input |-> ti, now |-> now]>>
    /\ UNCHANGED pc

NextTool == RunTool

SpecTool == Init /\ [][NextTool]_vars

\* C17: each successful str_replace or insert adds exactly one new backup,
\* whose content is the file's content just before the mutation, and
\* overwrites or removes no existing backup, however quickly the edits
\* follow each other; create and view add no backup.
C17_OneBackupPerEdit ==
    [][LET abs_path == ResolvedPath(SelfNow, last'.path)
       IN  /\ (last'.cmd \in {"str_replace", "insert"} /\ last'.status = "ok")
                => /\ \E b \in BackupFiles' \ BackupFiles :
                        /\ BackupFiles' = BackupFiles \cup {b}
                        /\ files'[b] = files[abs_path]
                   /\ \A o \in BackupFiles :
                        o \in BackupFiles' /\ files'[o] = files[o]
           /\ last'.cmd \in {"create", "view"}
                => /\ BackupFiles' = BackupFiles
                   /\ \A o \in BackupFiles : files'[o] = files[o]
      ]_vars

\* the outcome of the step is the outcome r of a workspace operation
SameOutcome(r) ==
    /\ files' = r.fs.files
    /\ dirs' = r.fs.dirs
    /\ history' = r.self.history
    /\ last'.status = r.status
    /\ last'.out = r.out

\* C18: run_text_editor_tool routes view, str_replace, create, insert and
\* undo_edit to the matching operation with the payload's path and fields;
\* for any other command name, a missing command included, it fails with
\* the "Unknown command" error and changes no file, backup or history.
C18_Dispatch ==
    [][LET ti == log'[1].tool_input
           now == log'[1].now
           command == last'.cmd
           path == Get(ti, "path", <<>>)
           Has(keys) == keys \subseteq DOMAIN ti
       IN  /\ command = "view"
                => SameOutcome(view(FsNow, SelfNow, path,
                                    Get(ti, "view_range", None)))
           /\ (command = "str_replace" /\ Has({"old_str", "new_str"}))
                => SameOutcome(str_replace(FsNow, SelfNow, path, ti.old_str,
                                           ti.new_str, now))
           /\ (command = "create" /\ Has({"file_text"}))
                => SameOutcome(create(FsNow, SelfNow, path, ti.file_text))
           /\ (command = "insert" /\ Has({"insert_line", "new_str"}))
                => SameOutcome(insert(FsNow, SelfNow, path, ti.insert_line,
                                      ti.new_str, now))
           /\ command = "undo_edit"
                => SameOutcome(undo_edit(FsNow, SelfNow, path))
           /\ command \notin {"view", "str_replace", "create", "insert",
                              "undo_edit"}
                => /\ last'.status = "UnknownCommand"
                   /\ files' = files
                   /\ dirs' = dirs
                   /\ history' = history
      ]_vars

C18_Witness ==
    /\ last.status = "UnknownCommand"
    /\ "command" \notin DOMAIN log[1].tool_input
    /\ BackupFiles # {}
    /\ Len(history) >= 2

(***************************************************************************)
(* SpecReg: the registry of workspaces behind the text-editor routes.      *)
(* Every route handler is an `async def` that calls get_or_create_sandbox  *)
(* and the workspace method without awaiting in between, so a handler is   *)
(* one step; a texteditor_chat request fetches its workspace once and then *)
(* runs tool calls on it across awaits, interleaved with other requests.   *)
(***************************************************************************)
SessionIds == { <<"s">>, <<"s", "2">> }

\* the tool calls of a chat: a file of the workspace, and a path that leaves
\* base_dir for a sibling whose name starts with base_dir's
RegInputs ==
    { [command |-> "create", path |-> <<"f">>, file_text |-> <<"a">>],
      [command |-> "create",
       path |-> <<DOT, DOT, SLASH, "s", "2", SLASH, "f">>,
       file_text |-> <<"a">>] }

InitReg ==
    /\ files = InitFs.files
    /\ dirs = makedirs([files |-> <<>>, dirs |-> {}], SANDBOX_BASE_DIR).dirs
    /\ history = <<>>
    /\ clock = 0
    /\ last = [cmd |-> "init", path |-> <<>>, status |-> "ok", out |-> <<>>]
    /\ pc = "free"
    /\ log = <<>>
    /\ SANDBOX_SESSIONS = <<>>
    /\ heap = <<>>
    /\ chats = {}

\* a handler's get_or_create_sandbox(session_id) and what became of the
\* registry; r is the workspace method's result on the object returned
Referenced(g, cmd, session_id, r) ==
    /\ Len(g.objects) <= MaxObj
    /\ files' = r.fs.files
    /\ dirs' = r.fs.dirs
    /\ SANDBOX_SESSIONS' = g.sessions
    /\ heap' = IF g.status = "ok"
               THEN [g.objects EXCEPT ![g.oid] = r.self] ELSE g.objects
    /\ last' = [cmd |-> cmd, path |-> session_id, status |-> r.status,
                out |-> [oid |-> g.oid, value |-> r.out]]
    /\ UNCHANGED <<history, clock, pc, log>>

\* list_texteditor_files
RegListFiles ==
    /\ \E sid \in SessionIds :
         \E g \in {get_or_create_sandbox(FsNow, SANDBOX_SESSIONS, heap, sid)} :
            Referenced(g, "list_files", sid,
                       IF g.status = "ok"
                       THEN list_files(g.fs, g.objects[g.oid])
                       ELSE Raise(g.fs, <<>>, g.status, <<>>))
    /\ UNCHANGED chats

\* texteditor_chat up to the point where it holds its sandbox
RegChatBegin ==
    \E sid \in SessionIds :
        \E g \in {get_or_create_sandbox(FsNow, SANDBOX_SESSIONS, heap, sid)} :
            /\ g.status = "ok"
            /\ Referenced(g, "chat", sid,
                          [fs |-> g.fs, self |-> g.objects[g.oid],
                           status |-> "ok", out |-> <<>>])
            /\ chats' = chats \cup {g.oid}

\* one tool_use block of a running chat, executed on the sandbox it holds
RegChatTool ==
    /\ \E o \in chats, ti \in RegInputs :
         \E r \in {run_text_editor_tool(FsNow, heap[o], ti, clock)} :
            /\ Len(r.self.history) <= MaxHist
            /\ files' = r.fs.files
            /\ dirs' = r.fs.dirs
            /\ heap' = [heap EXCEPT ![o] = r.self]
            /\ last' = [cmd |-> ti.command, path |-> ti.path,
                        status |-> r.status,
                        out |-> [oid |-> o, value |-> r.out]]
    /\ UNCHANGED <<history, clock, pc, log, SANDBOX_SESSIONS, chats>>

\* the chat's response stream ends
RegChatEnd ==
    /\ \E o \in chats : chats' = chats \ {o}
    /\ UNCHANGED <<files, dirs, history, clock, last, pc, log,
                   SANDBOX_SESSIONS, heap>>

\* delete_texteditor_session
RegDelete ==
    /\ \E sid \in SessionIds :
         \E d \in {delete_texteditor_session(FsNow, SANDBOX_SESSIONS, heap,
                                             sid)} :
            /\ files' = d.fs.files
            /\ dirs' = d.fs.dirs
            /\ SANDBOX_SESSIONS' = d.sessions
            /\ last' = [cmd |-> "delete", path |-> sid, status |-> d.status,
                        out |-> [oid |-> 0, value |-> <<>>]]
    /\ UNCHANGED <<history, clock, pc, log, heap, chats>>

NextReg ==
    \/ RegListFiles
    \/ RegChatBegin
    \/ RegChatTool
    \/ RegChatEnd
    \/ RegDelete

SpecReg == InitReg /\ [][NextReg]_vars

\* C19: all get_or_create_sandbox calls for one session identifier made
\* between its first access and its deletion return the same object; the
\* registry never creates or hands out a second object for a live
\* identifier.
C19_OneWorkspace ==
    [][/\ \A sid \in (DOMAIN SANDBOX_SESSIONS) \cap (DOMAIN SANDBOX_SESSIONS') :
            SANDBOX_SESSIONS'[sid] = SANDBOX_SESSIONS[sid]
       /\ (last'.cmd \in {"list_files", "chat"} /\ last'.status = "ok")
            => LET sid == last'.path
               IN  /\ last'.out.oid = SANDBOX_SESSIONS'[sid]
                   /\ sid \in DOMAIN SANDBOX_SESSIONS
                        => /\ last'.out.oid = SANDBOX_SESSIONS[sid]
                           /\ heap' = heap
                   /\ sid \notin DOMAIN SANDBOX_SESSIONS
                        => last'.out.oid \notin 1..Len(heap)
      ]_vars

\* a live identifier, deleted and referenced again before, still yields the
\* one object registered for it
C19_Witness ==
    /\ last.cmd = "list_files"
    /\ last.path \in DOMAIN SANDBOX_SESSIONS
    /\ last.out.oid = SANDBOX_SESSIONS[last.path]
    /\ chats = {last.out.oid}
    /\ \E o \in 1..Len(heap) :
          o # last.out.oid /\ heap[o].session_id = last.path

\* C20: deleting a registered session removes its whole directory tree and
\* then its registry entry; deleting an unknown identifier succeeds with no
\* effect; the next reference to a deleted or never-seen identifier creates
\* a fresh workspace whose file listing and history are both empty.
C20_SessionDeletion ==
    [][/\ last'.cmd = "delete"
            => LET sid == last'.path
               IN  /\ last'.status = "ok"
                   /\ sid \notin DOMAIN SANDBOX_SESSIONS'
                   /\ sid \in DOMAIN SANDBOX_SESSIONS
                        => \A p \in (DOMAIN files') \cup dirs' :
                              ~IsUnder(p, heap[SANDBOX_SESSIONS[sid]].base_dir)
                   /\ sid \notin DOMAIN SANDBOX_SESSIONS
                        => /\ files' = files
                           /\ dirs' = dirs
                           /\ SANDBOX_SESSIONS' = SANDBOX_SESSIONS
       /\ Len(heap') > Len(heap)
            => LET new == heap'[Len(heap')]
               IN  /\ list_files([files |-> files', dirs |-> dirs'], new).out
                        = {}
                   /\ new.history = <<>>
      ]_vars

(***************************************************************************)
(* SpecClean: one workspace whose owner also calls cleanup, as a test's    *)
(* teardown or the delete route does, and may go on using the object.      *)
(***************************************************************************)
Cleanup ==
    /\ Commit(cleanup(FsNow, SelfNow), "cleanup", <<>>)
    /\ UNCHANGED clock
    /\ Free

NextClean ==
    \/ Create
    \/ StrReplace
    \/ Cleanup

SpecClean == Init /\ [][NextClean]_vars

\* C21: cleanup deletes base_dir and everything under it, touching nothing
\* else; called when base_dir is already absent it raises no error and
\* changes nothing.
C21_CleanupIdempotent ==
    [][last'.cmd = "cleanup"
         => /\ last'.status = "ok"
            /\ \A p \in (DOMAIN files') \cup dirs' :
                  ~IsUnder(p, SelfNow.base_dir)
            /\ \A p \in DOMAIN files :
                  ~IsUnder(p, SelfNow.base_dir)
                     => p \in DOMAIN files' /\ files'[p] = files[p]
            /\ \A p \in dirs : ~IsUnder(p, SelfNow.base_dir) => p \in dirs'
            /\ history' = history
            /\ ~exists(FsNow, SelfNow.base_dir)
                  => files' = files /\ dirs' = dirs
      ]_vars

(***************************************************************************)
(* SpecRace: two str_replace calls on one file of one workspace object,    *)
(* made by callers that run in parallel (two threads sharing the object):  *)
(* str_replace takes no lock, so the calls interleave between its          *)
(* file-system steps.  pc[c] is caller c's position in str_replace and     *)
(* log[c] its local variables.  (The route handlers of this application    *)
(* are coroutines on one event loop and run each call to its end.)         *)
(***************************************************************************)
\* the calls each caller may make, on a file created with the text "ab"
RaceCalls ==
    [A |-> { [path |-> <<"f">>, old_str |-> <<"a">>, new_str |-> <<"c">>],
             [path |-> <<"f">>, old_str |-> <<"a">>, new_str |-> <<>>] },
     B |-> { [path |-> <<"f">>, old_str |-> <<"b">>, new_str |-> <<"d">>],
             [path |-> <<"f">>, old_str |-> <<"a">>, new_str |-> <<"d">>] }]

InitRace ==
    /\ \E r \in {create(InitFs, Tool0, <<"f">>, <<"a", "b">>)} :
          /\ files = r.fs.files
          /\ dirs = r.fs.dirs
          /\ history = r.self.history
          /\ last = [cmd |-> "create", path |-> <<"f">>, status |-> r.status,
                     out |-> r.out]
    /\ clock = 0
    /\ pc = [c \in DOMAIN RaceCalls |-> "call"]
    /\ log = [c \in DOMAIN RaceCalls |-> [status |-> "none"]]
    /\ SANDBOX_SESSIONS = <<>>
    /\ heap = <<>>
    /\ chats = {}

\* str_replace up to the match count: [status, abs_path, content]
str_replace_read(fs, self, file_path, old_str) ==
    LET v == validate_path(self, file_path)
        abs_path == v.abs_path
        content == DecodeText(fs.files[abs_path])
        match_count == Count(content, old_str)
        End(status) ==
            [status |-> status, abs_path |-> abs_path, content |-> <<>>]
    IN  IF ~v.ok THEN End("AccessDenied")
        ELSE IF ~exists(fs, abs_path) THEN End("FileNotFound")
        ELSE IF ~CanRead(fs, abs_path) THEN End("OSError")
        ELSE IF match_count = 0 THEN End("NoMatch")
        ELSE IF match_count > 1 THEN End("MultiMatch")
        ELSE [status |-> "ok", abs_path |-> abs_path, content |-> content]

\* a write step that reads the file again and replaces in what it finds
str_replace_write_fresh(fs, abs_path, content, old_str, new_str) ==
    WriteBytes(fs, abs_path,
               EncodeText(Replace(DecodeText(fs.files[abs_path]),
                                  old_str, new_str)))

\* str_replace's write: new_content, computed from the content read at the
\* start of the call, replaces the file
str_replace_write(fs, abs_path, content, old_str, new_str) ==
    WriteBytes(fs, abs_path, EncodeText(Replace(content, old_str, new_str)))

\* the caller's call ends here with this status
RaceEnd(c, status) ==
    /\ pc' = [pc EXCEPT ![c] = "done"]
    /\ log' = [log EXCEPT ![c].status = status]
    /\ last' = [cmd |-> "str_replace", path |-> log'[c].call.path,
                status |-> status, out |-> <<>>]

RaceRead ==
    /\ \E c \in DOMAIN RaceCalls :
         /\ pc[c] = "call"
         /\ \E call \in RaceCalls[c] :
              \E r \in {str_replace_read(FsNow, SelfNow, call.path,
                                         call.old_str)} :
                 IF r.status = "ok"
                 THEN /\ pc' = [pc EXCEPT ![c] = "read"]
                      /\ log' = [log EXCEPT ![c] =
                                    [status |-> "running", call |-> call,
                                     abs_path |-> r.abs_path,
                                     content |-> r.content]]
                      /\ UNCHANGED last
                 ELSE /\ pc' = [pc EXCEPT ![c] = "done"]
                      /\ log' = [log EXCEPT ![c] =
                                    [status |-> r.status, call |-> call,
                                     abs_path |-> r.abs_path,
                                     content |-> r.content]]
                      /\ last' = [cmd |-> "str_replace", path |-> call.path,
                                  status |-> r.status, out |-> <<>>]
    /\ UNCHANGED <<files, dirs, history, clock, SANDBOX_SESSIONS, heap, chats>>

RaceBackup ==
    /\ \E c \in DOMAIN RaceCalls, now \in CoarseInstants :
         /\ pc[c] = "read"
         /\ \E b \in {backup_file(FsNow, SelfNow, log[c].abs_path, now)} :
              /\ files' = b.fs.files
              /\ dirs' = b.fs.dirs
              /\ clock' = now
              /\ IF b.ok
                 THEN /\ pc' = [pc EXCEPT ![c] = "backed"]
                      /\ UNCHANGED <<log, last>>
                 ELSE RaceEnd(c, "OSError")
    /\ UNCHANGED <<history, SANDBOX_SESSIONS, heap, chats>>

RaceWrite ==
    /\ \E c \in DOMAIN RaceCalls :
         /\ pc[c] = "backed"
         /\ \E w \in {str_replace_write(FsNow, log[c].abs_path, log[c].content,
                                        log[c].call.old_str,
                                        log[c].call.new_str)} :
              /\ files' = w.files
              /\ dirs' = w.dirs
         /\ pc' = [pc EXCEPT ![c] = "written"]
    /\ UNCHANGED <<history, clock, log, last, SANDBOX_SESSIONS, heap, chats>>

RaceRecord ==
    /\ \E c \in DOMAIN RaceCalls :
         /\ pc[c] = "written"
         /\ history' =
               add_history(SelfNow, "str_replace", log[c].call.path,
                           [old_str |-> log[c].call.old_str,
                            new_str |-> log[c].call.new_str],
                           log[c].content,
                           Replace(log[c].content, log[c].call.old_str,
                                   log[c].call.new_str)).history
         /\ RaceEnd(c, "ok")
    /\ UNCHANGED <<files, dirs, clock, SANDBOX_SESSIONS, heap, chats>>

NextRace ==
    \/ RaceRead
    \/ RaceBackup
    \/ RaceWrite
    \/ RaceRecord

SpecRace == InitRace /\ [][NextRace]_vars

\* what the file holds when the call of caller c alone is applied to text t
Applied(c, t) == Replace(t, log[c].call.old_str, log[c].call.new_str)

\* C22: two str_replace calls on the same file that interleave between
\* their file-system steps (read, backup, write, history append) can both
\* report success while the file ends up reflecting only one of the two
\* replacements, or while a backup is lost: whenever both calls have
\* succeeded after reading the same content, the file holds that content
\* with one caller's replacement alone (not what the two calls give one
\* after the other, where both orders succeed), and whenever their two
\* snapshots were taken at the same instant a single backup is left.
C22_LostUpdate ==
    (\A c \in DOMAIN RaceCalls : pc[c] = "done" /\ log[c].status = "ok")
      => LET now == DecodeText(files[log.A.abs_path])
         IN  /\ log.A.content = log.B.content
                  => /\ now \in {Applied("A", log.A.content),
                                 Applied("B", log.B.content)}
                     /\ (/\ Count(Applied("A", log.A.content),
                                   log.B.call.old_str) = 1
                         /\ Count(Applied("B", log.B.content),
                                   log.A.call.old_str) = 1)
                          => now \notin
                               {Applied("B", Applied("A", log.A.content)),
                                Applied("A", Applied("B", log.B.content))}
             /\ log.A.content # log.B.content
                  => now \in {Applied("B", Applied("A", log.A.content)),
                              Applied("A", Applied("B", log.B.content))}
             /\ clock = 1 => Cardinality(BackupFiles) = 1

\* both calls succeeded; the file holds "cb", caller B's replacement of "b"
\* by "d" is gone, and one backup is left of the two taken
C22_Witness ==
    /\ \A c \in DOMAIN RaceCalls : pc[c] = "done" /\ log[c].status = "ok"
    /\ log.B.call.new_str = <<"d">>
    /\ log.B.call.old_str = <<"b">>
    /\ DecodeText(files[log.A.abs_path]) = <<"c", "b">>
    /\ Len(history) = 3
    /\ Cardinality(BackupFiles) = 1

(***************************************************************************)
(* SpecChat: the generators of texteditor_chat and chat_with_tools, the    *)
(* two tool-call loops.  pc is the generator's frame (its local variables  *)
(* and its position `at`), log the events it has yielded so far.  The      *)
(* model's reply to client.messages.create is any of a few replies, or an  *)
(* exception.                                                              *)
(***************************************************************************)
MaxTurns == 2

\* max_iterations of the two loops
max_iterations == [texteditor |-> 20, tools |-> 10]

\* execute_tool of the sample tools (the calculator's eval is left out)
execute_tool(tool_name, tool_input) ==
    IF tool_name = "get_weather"
    THEN <<"Weather in", Get(tool_input, "location", "Unknown")>>
    ELSE <<"Unknown tool", tool_name>>

ToolUse(id, name, input) ==
    [type |-> "tool_use", id |-> id, name |-> name, input |-> input]

Text(text) == [type |-> "text", text |-> text]

Reply(stop_reason, content) ==
    [raise |-> "none", stop_reason |-> stop_reason, content |-> content]

\* what client.messages.create may give in the first MaxTurns iterations
ChatReplies ==
    { Reply("tool_use",
            << Text("x"),
               ToolUse("a", "str_replace_based_edit_tool",
                       [command |-> "create", path |-> <<"f">>,
                        file_text |-> <<"a">>]),
               ToolUse("b", "str_replace_based_edit_tool",
                       [command |-> "str_replace", path |-> <<"f">>,
                        old_str |-> <<"a">>, new_str |-> <<"b">>]) >>),
      Reply("tool_use",
            << ToolUse("a", "str_replace_based_edit_tool",
                       [command |-> "view", path |-> <<"g">>]),
               ToolUse("b", "str_replace_based_edit_tool",
                       [command |-> "delete", path |-> <<"f">>]),
               ToolUse("c", "get_weather", [location |-> <<"x">>]),
               ToolUse("d", "str_replace_based_edit_tool",
                       [command |-> "create", path |-> <<"d", SLASH, "f">>,
                        file_text |-> <<"b">>]) >>),
      Reply("tool_use", << Text("x") >>),
      Reply("max_tokens",
            << ToolUse("a", "str_replace_based_edit_tool",
                       [command |-> "create", path |-> <<"k">>,
                        file_text |-> <<"a">>]) >>),
      Reply("end_turn", << Text("x") >>),
      [raise |-> "APIError"],
      [raise |-> "Exception"] }

\* and in the iterations after them
LoopReplies ==
    { Reply("tool_use",
            << ToolUse("a", "str_replace_based_edit_tool",
                       [command |-> "view", path |-> <<"g">>]) >>),
      Reply("end_turn", << Text("x") >>),
      [raise |-> "APIError"] }

Event(type, data) == [type |-> type, data |-> data]

\* the request's messages
Messages == << [role |-> "user", content |-> <<"x">>] >>

InitChat ==
    /\ InitWorkspace
    /\ \E loop \in DOMAIN max_iterations :
          pc = [loop |-> loop, at |-> "top", iteration |-> 0,
                current_messages |-> Messages,
                response |-> Reply("none", <<>>),
                block |-> 0, tool_results |-> <<>>]
    /\ log = <<>>

\* while iteration < max_iterations
LoopContinues_inclusive(frame) ==
    frame.iteration <= max_iterations[frame.loop]

LoopContinues(frame) == frame.iteration < max_iterations[frame.loop]

\* the events of the loop over response.content, and assistant_content
BlockEvents(content) ==
    [i \in 1..Len(content) |->
        IF content[i].type = "text" THEN Event("text", content[i].text)
        ELSE Event("tool_call", content[i])]

\* one pass of the loop body up to the test of stop_reason: the model is
\* called; an exception ends the generator in its handler, a reply that is
\* not tool_use leaves the loop, a tool_use reply goes on to the blocks
ChatModelCall ==
    /\ pc.at = "top"
    /\ LoopContinues(pc)
    /\ \E response \in IF pc.iteration < MaxTurns THEN ChatReplies
                       ELSE LoopReplies :
         LET iteration == pc.iteration + 1
             request == Event("debug_request", iteration)
             seen == <<request>> \o BlockEvents(response.content)
                        \o <<Event("debug_response", response)>>
         IN  IF response.raise # "none"
             THEN /\ pc' = [pc EXCEPT !.iteration = iteration, !.at = "end"]
                  /\ log' = IF response.raise = "APIError"
                               \/ pc.loop = "texteditor"
                            THEN log \o <<request,
                                          Event("error", response.raise)>>
                            ELSE log \o <<request>>
             ELSE IF response.stop_reason = "tool_use"
             THEN /\ pc' = [pc EXCEPT
                              !.iteration = iteration,
                              !.response = response,
                              !.current_messages =
                                  Append(@, [role |-> "assistant",
                                             content |-> response.content]),
                              !.tool_results = <<>>,
                              !.block = 1,
                              !.at = "tools"]
                  /\ log' = log \o seen
             ELSE /\ pc' = [pc EXCEPT !.iteration = iteration,
                                      !.response = response, !.at = "end"]
                  /\ log' = log \o seen \o <<Event("done", <<>>)>>
    /\ UNCHANGED <<files, dirs, history, clock, last, SANDBOX_SESSIONS, heap,
                   chats>>

\* the tool_result built when the call returns
tool_result_ok_only(block, r) ==
    [type |-> "tool_result", tool_use_id |-> block.id,
     content |-> r.out, is_error |-> FALSE]

\* the tool_result of texteditor_chat for a tool_use block whose call ended
\* as r: the result, or the exception's text with is_error
tool_result(block, r) ==
    IF r.status = "ok"
    THEN [type |-> "tool_result", tool_use_id |-> block.id,
          content |-> r.out, is_error |-> FALSE]
    ELSE [type |-> "tool_result", tool_use_id |-> block.id,
          content |-> <<"Error: ", r.status, r.out>>, is_error |-> TRUE]

\* one pass of `for block in response.content` in the tool_use branch
ChatToolBlock ==
    /\ pc.at = "tools"
    /\ pc.block <= Len(pc.response.content)
    /\ LET block == pc.response.content[pc.block]
           now == clock + 1
       IN  IF block.type # "tool_use"
           THEN /\ pc' = [pc EXCEPT !.block = @ + 1]
                /\ UNCHANGED <<files, dirs, history, clock, last, log>>
           ELSE IF pc.loop = "tools"
           THEN LET result == execute_tool(block.name, block.input)
                IN  /\ pc' = [pc EXCEPT
                                !.block = @ + 1,
                                !.tool_results =
                                    Append(@, [type |-> "tool_result",
                                               tool_use_id |-> block.id,
                                               content |-> result])]
                    /\ log' = Append(log,
                                Event("tool_result",
                                      [tool_use_id |-> block.id,
                                       name |-> block.name,
                                       result |-> result]))
                    /\ UNCHANGED <<files, dirs, history, clock, last>>
           ELSE \E r \in {run_text_editor_tool(FsNow, SelfNow, block.input,
                                               now)} :
                  /\ Len(r.self.history) <= MaxHist
                  /\ clock' = IF /\ Get(block.input, "command", "None")
                                      \in {"str_replace", "insert"}
                                 /\ r.status \in {"ok", "IndexError"}
                              THEN now ELSE clock
                  /\ clock' <= MaxClock
                  /\ files' = r.fs.files
                  /\ dirs' = r.fs.dirs
                  /\ history' = r.self.history
                  /\ last' = [cmd |-> Get(block.input, "command", "None"),
                              path |-> Get(block.input, "path", <<>>),
                              status |-> r.status, out |-> r.out]
                  /\ pc' = [pc EXCEPT
                              !.block = @ + 1,
                              !.tool_results = Append(@, tool_result(block, r))]
                  /\ log' = Append(log,
                              Event("tool_result",
                                    [tool_use_id |-> block.id,
                                     name |-> block.name,
                                     result |-> tool_result(block, r).content,
                                     is_error |->
                                         tool_result(block, r).is_error]))
    /\ UNCHANGED <<SANDBOX_SESSIONS, heap, chats>>

\* after the blocks: the user message with the results and, in
\* texteditor_chat, the files_updated and history_updated events
ChatToolsEnd ==
    /\ pc.at = "tools"
    /\ pc.block > Len(pc.response.content)
    /\ pc' = [pc EXCEPT
                !.current_messages =
                    Append(@, [role |-> "user", content |-> pc.tool_results]),
                !.at = "top"]
    /\ log' = IF pc.loop = "texteditor"
              THEN log \o <<Event("files_updated",
                                  list_files(FsNow, SelfNow).out),
                            Event("history_updated",
                                  get_history(FsNow, SelfNow).out)>>
              ELSE log
    /\ UNCHANGED <<files, dirs, history, clock, last, SANDBOX_SESSIONS, heap,
                   chats>>

\* the loop condition fails: the statement after the loop
ChatLoopExit ==
    /\ pc.at = "top"
    /\ ~LoopContinues(pc)
    /\ pc' = [pc EXCEPT !.at = "end"]
    /\ log' = Append(log, Event("done", <<>>))
    /\ UNCHANGED <<files, dirs, history, clock, last, SANDBOX_SESSIONS, heap,
                   chats>>

NextChat ==
    \/ ChatModelCall
    \/ ChatToolBlock
    \/ ChatToolsEnd
    \/ ChatLoopExit

SpecChat == InitChat /\ [][NextChat]_vars

\* the positions in the stream of the events of a type
EventsOf(type) == {i \in 1..Len(log) : log[i].type = type}

\* a bound on the steps the generator has left, a reply having fewer than
\* six blocks: it falls at every step
StepsLeft(frame) ==
    IF frame.at = "end" THEN 0
    ELSE (max_iterations[frame.loop] - frame.iteration) * 8
         + (IF frame.at = "tools"
            THEN Len(frame.response.content) - frame.block + 3 ELSE 1)

\* C23: whatever the model replies, the text-editor chat loop makes at most
\* 20 model calls and the sample-tools chat loop at most 10; each loop stops
\* at the first reply whose stop reason is not tool_use; the text-editor
\* event stream terminates (every step brings the generator nearer to its
\* end) with exactly one final 'done' or 'error' event, after which nothing
\* is emitted.
C23_BoundedLoop ==
    /\ [](/\ Cardinality(EventsOf("debug_request"))
                <= (IF pc.loop = "texteditor" THEN 20 ELSE 10)
          /\ \A i \in EventsOf("debug_response") :
                log[i].data.stop_reason # "tool_use"
                   => /\ pc.at = "end"
                      /\ \A j \in (i + 1)..Len(log) :
                            log[j].type \notin {"debug_request", "tool_result"}
          /\ pc.loop = "texteditor"
                => /\ \A i \in EventsOf("done") \cup EventsOf("error") :
                         i = Len(log)
                   /\ pc.at = "end"
                         <=> EventsOf("done") \cup EventsOf("error") # {})
    /\ [][/\ pc.at # "end"
          /\ StepsLeft(pc') < StepsLeft(pc)
          /\ Len(log') >= Len(log)
          /\ SubSeq(log', 1, Len(log)) = log]_vars

\* the text-editor loop has used up its 20 iterations on tool_use replies
\* and ended the stream with 'done'
C23_Witness ==
    /\ pc.loop = "texteditor"
    /\ pc.at = "end"
    /\ Cardinality(EventsOf("debug_request")) = 20
    /\ pc.response.stop_reason = "tool_use"
    /\ log[Len(log)].type = "done"

\* the tool_use blocks of a reply, in order
ToolUses(content) == SelectSeq(content, LAMBDA b : b.type = "tool_use")

\* C24: in every iteration of the text-editor chat loop whose stop reason
\* is tool_use, the loop appends one assistant message and then one user
\* message holding exactly one tool_result per tool_use block, in the same
\* order and with the same tool_use_id; an operation that raises is
\* reported as a tool_result with is_error true and the error's text, and
\* neither ends the loop nor keeps the blocks after it from being executed;
\* the files_updated and history_updated events follow the results.
C24_ToolResults ==
    [][pc.loop = "texteditor"
         => /\ (pc.at = "top" /\ pc'.at = "tools")
                 => /\ pc'.response.stop_reason = "tool_use"
                    /\ pc'.current_messages =
                          Append(pc.current_messages,
                                 [role |-> "assistant",
                                  content |-> pc'.response.content])
            /\ (pc.at = "top" /\ pc'.at = "end")
                 => pc'.current_messages = pc.current_messages
            /\ (/\ pc.at = "tools"
                /\ pc'.at = "tools"
                /\ pc.response.content[pc.block].type = "tool_use")
                 => LET block == pc.response.content[pc.block]
                        r == run_text_editor_tool(FsNow, SelfNow, block.input,
                                                  clock + 1)
                        result == pc'.tool_results[Len(pc'.tool_results)]
                    IN  /\ SameOutcome(r)
                        /\ pc'.block = pc.block + 1
                        /\ Len(pc'.tool_results) = Len(pc.tool_results) + 1
                        /\ SubSeq(pc'.tool_results, 1, Len(pc.tool_results))
                              = pc.tool_results
                        /\ result.type = "tool_result"
                        /\ result.tool_use_id = block.id
                        /\ result.is_error = (r.status # "ok")
                        /\ r.status = "ok" => result.content = r.out
                        /\ r.status # "ok"
                              => result.content = <<"Error: ", r.status, r.out>>
                        /\ log' = Append(log,
                                    Event("tool_result",
                                          [tool_use_id |-> block.id,
                                           name |-> block.name,
                                           result |-> result.content,
                                           is_error |-> result.is_error]))
            /\ (pc.at = "tools" /\ pc'.at = "top")
                 => /\ pc'.current_messages =
                          Append(pc.current_messages,
                                 [role |-> "user",
                                  content |-> pc.tool_results])
                    /\ [i \in 1..Len(pc.tool_results) |->
                           pc.tool_results[i].tool_use_id]
                          = [i \in 1..Len(ToolUses(pc.response.content)) |->
                                ToolUses(pc.response.content)[i].id]
                    /\ log' = log \o
                          <<Event("files_updated",
                                  list_files(FsNow, SelfNow).out),
                            Event("history_updated", history)>>
      ]_vars

\* an iteration is over whose first three tool calls raised and whose
\* fourth created d/f
C24_Witness ==
    /\ pc.loop = "texteditor"
    /\ pc.at = "top"
    /\ Len(pc.tool_results) = 4
    /\ [i \in 1..4 |-> pc.tool_results[i].is_error]
          = <<TRUE, TRUE, TRUE, FALSE>>
    /\ pc.current_messages[Len(pc.current_messages)]
          = [role |-> "user", content |-> pc.tool_results]
    /\ ResolvedPath(SelfNow, <<"d", SLASH, "f">>) \in DOMAIN files
    /\ log[Len(log)].type = "history_updated"

\* C25: undo_edit(p) restores p only from a snapshot that was taken from p
\* itself, never from one taken from a different file (one of the same base
\* name in another directory, or one whose name extends p's name with a dot
\* suffix), and it consumes no backup of another file.
C25_UndoIsolation ==
    [][(last'.cmd = "undo_edit" /\ last'.status = "ok") =>
         LET abs_path == ResolvedPath(SelfNow, last'.path)
             own == TakenFrom(BackupFiles, abs_path)
         IN  /\ BackupFiles \ BackupFiles' \subseteq own
             /\ \E b \in own : files'[abs_path] = files[b]
      ]_vars

(***************************************************************************)
(* SpecStack: create(p, v0), then edits of p, then undo_edit(p) k + 1      *)
(* times, k being the number of edits that succeeded.  log keeps the       *)
(* contents v0..vk of the file, pc the phase and the number of undos made. *)
(***************************************************************************)
StackPath == <<"f">>

InitStack ==
    /\ InitWorkspace
    /\ pc = [phase |-> "new", undone |-> 0]
    /\ log = <<>>

\* the contents so far, with the file's new content after a successful call
Contents ==
    IF last'.status = "ok"
    THEN Append(log, files'[ResolvedPath(SelfNow, StackPath)]) ELSE log

StackCreate ==
    /\ pc.phase = "new"
    /\ CreateOn({StackPath}, Texts)
    /\ pc' = [pc EXCEPT !.phase = "edit"]
    /\ log' = Contents

StackEdit ==
    /\ pc.phase = "edit"
    /\ Len(log) < MaxHist
    /\ \/ StrReplaceOn({StackPath}, OldStrs, NewStrs, CoarseInstants)
       \/ InsertOn({StackPath}, InsertLines, InsertStrs, CoarseInstants)
    /\ log' = Contents
    /\ UNCHANGED pc

StackUndo ==
    /\ pc.phase \in {"edit", "undo"}
    /\ pc.undone < Len(log)
    /\ \E r \in {undo_edit(FsNow, SelfNow, StackPath)} :
         /\ files' = r.fs.files
         /\ dirs' = r.fs.dirs
         /\ history' = r.self.history
         /\ last' = [cmd |-> "undo_edit", path |-> StackPath,
                     status |-> r.status, out |-> r.out]
    /\ pc' = [phase |-> "undo", undone |-> pc.undone + 1]
    /\ UNCHANGED <<clock, log, SANDBOX_SESSIONS, heap, chats>>

NextStack ==
    \/ StackCreate
    \/ StackEdit
    \/ StackUndo

SpecStack == InitStack /\ [][NextStack]_vars

\* C26: after create(p, v0) and k successful edits producing the contents
\* v1..vk, with no undo in between, k successive undo_edit(p) calls restore
\* vk-1, ..., v0 in that order and the (k+1)-th fails with the not-found
\* error.
C26_BackupStack ==
    pc.phase = "undo"
      => LET k == Len(log) - 1
             j == pc.undone
         IN  /\ j <= k
                  => /\ last.status = "ok"
                     /\ files[ResolvedPath(SelfNow, StackPath)] = log[k - j + 1]
             /\ j = k + 1 => last.status = "NoBackups"

\* the files located inside backup_dir
Reserved == {b \in DOMAIN files : IsUnder(b, SelfNow.backup_dir)}

\* C27: no call of create, str_replace, insert or undo_edit with a
\* caller-supplied path creates, modifies or restores a file inside
\* backup_dir; the contents of backup_dir change only by a snapshot being
\* added by a str_replace or insert and by undo_edit deleting the snapshot
\* it restored.
C27_BackupStoreReserved ==
    [][LET abs_path == ResolvedPath(SelfNow, last'.path)
       IN  /\ (last'.cmd \in Mutating /\ IsUnder(abs_path, SelfNow.backup_dir))
                => files' = files
           /\ \A b \in Reserved \cap Reserved' : files'[b] = files[b]
           /\ Reserved' # Reserved
                => \/ /\ last'.cmd \in {"str_replace", "insert"}
                      /\ \E b \in Reserved' \ Reserved :
                            /\ Reserved' = Reserved \cup {b}
                            /\ files'[b] = files[abs_path]
                   \/ /\ last'.cmd = "undo_edit"
                      /\ last'.status = "ok"
                      /\ \E b \in Reserved \ Reserved' :
                            /\ Reserved' = Reserved \ {b}
                            /\ files'[abs_path] = files[b]
      ]_vars

(***************************************************************************)
(* SpecIso: the registry reached with session identifiers that hold a path *)
(* separator, as the session_id of a chat request's body may.              *)
(***************************************************************************)
IsoIds == { <<"s">>, <<"s", SLASH, "x">> }

\* a texteditor_chat request whose reply asks for one create
IsoChat ==
    /\ \E sid \in IsoIds,
          ti \in {t \in ToolInputs : Get(t, "command", "None") = "create"} :
         \E g \in {get_or_create_sandbox(FsNow, SANDBOX_SESSIONS, heap, sid)} :
            /\ g.status = "ok"
            /\ \E r \in {run_text_editor_tool(g.fs, g.objects[g.oid], ti,
                                              clock)} :
                  /\ Len(r.self.history) < MaxHist
                  /\ Referenced(g, Get(ti, "command", "None"), sid, r)
    /\ UNCHANGED chats

IsoListFiles ==
    /\ \E sid \in IsoIds :
         \E g \in {get_or_create_sandbox(FsNow, SANDBOX_SESSIONS, heap, sid)} :
            /\ g.status = "ok"
            /\ Referenced(g, "list_files", sid,
                          list_files(g.fs, g.objects[g.oid]))
    /\ UNCHANGED chats

IsoDelete ==
    /\ \E sid \in IsoIds :
         \E d \in {delete_texteditor_session(FsNow, SANDBOX_SESSIONS, heap,
                                             sid)} :
            /\ files' = d.fs.files
            /\ dirs' = d.fs.dirs
            /\ SANDBOX_SESSIONS' = d.sessions
            /\ last' = [cmd |-> "delete", path |-> sid, status |-> d.status,
                        out |-> [oid |-> 0, value |-> <<>>]]
    /\ UNCHANGED <<history, clock, pc, log, heap, chats>>

NextIso ==
    \/ IsoChat
    \/ IsoListFiles
    \/ IsoDelete

SpecIso == InitReg /\ [][NextIso]_vars

\* the files and directories of the tree of a session identifier
TreeOf(fs, session_id) ==
    {p \in (DOMAIN fs.files) \cup fs.dirs :
        IsUnder(p, NewTool(session_id).base_dir)}

\* C28: for every session identifier that reaches get_or_create_sandbox,
\* base_dir is a proper descendant of the sandbox root and the trees of
\* distinct identifiers are disjoint: a request of one session neither
\* reads (lists) nor creates, modifies or deletes anything in the tree of
\* another session or outside the sandbox root.
C28_SessionIsolation ==
    [][LET sid == last'.path
           others == UNION {TreeOf(FsNow, o) \cup TreeOf(FsNow', o) :
                               o \in IsoIds \ {sid}}
           touched == {p \in (DOMAIN files) \cup (DOMAIN files') :
                          \/ p \notin DOMAIN files
                          \/ p \notin DOMAIN files'
                          \/ files'[p] # files[p]}
                      \cup ((dirs \ dirs') \cup (dirs' \ dirs))
       IN  /\ IsUnder(NewTool(sid).base_dir, SANDBOX_BASE_DIR)
           /\ NewTool(sid).base_dir # SANDBOX_BASE_DIR
           /\ \A p \in touched :
                 /\ IsUnder(p, NewTool(sid).base_dir)
                 /\ p \notin others
           /\ (last'.cmd = "list_files" /\ last'.status = "ok")
                 => \A e \in last'.out.value :
                       PathJoin(NewTool(sid).base_dir, e.path) \notin others
      ]_vars

\* the positions in the history of the records for the file abs_path
RecordsOf(abs_path) ==
    {i \in 1..Len(history) :
        ResolvedPath(SelfNow, history[i].path) = abs_path}

\* the largest member of a non-empty set of numbers
Latest(S) == CHOOSE i \in S : \A j \in S : j <= i

\* C29: after any sequence of workspace operations, for every file p the
\* most recent history record for p has new_content equal to p's current
\* content, and every str_replace or insert record for p has old_content
\* equal to the new_content of the record for p just before it.
C29_HistoryMirrors ==
    \A f \in DOMAIN files :
        /\ RecordsOf(f) # {}
             => history[Latest(RecordsOf(f))].new_content
                   = DecodeText(files[f])
        /\ \A i \in RecordsOf(f) :
              history[i].command \in {"str_replace", "insert"}
                 => LET before == {j \in RecordsOf(f) : j < i}
                    IN  /\ before # {}
                        /\ history[i].old_content
                              = history[Latest(before)].new_content

\* C30: in every reachable state, a running chat loop interleaved with
\* session deletion and lazy re-creation of the identifier included, every
\* file that list_files returns for a session was produced by a successful
\* create whose record is in the history get_history returns for that
\* session.
C30_FilesFromCreates ==
    [][(last'.cmd = "list_files" /\ last'.status = "ok")
         => LET sandbox == heap'[last'.out.oid]
            IN  \A e \in last'.out.value :
                   \E i \in 1..Len(sandbox.history) :
                      /\ sandbox.history[i].command = "create"
                      /\ ResolvedPath(sandbox, sandbox.history[i].path)
                            = normpath(PathJoin(sandbox.base_dir, e.path))
      ]_vars

==============================================================================
